---- MODULE Spec2Model ----
(***************************************************************************)
(* The gold and silver price calculators of nl-calculator: the validator,  *)
(* the wastage sweep, the selection, the saved-calculation store and the   *)
(* replay of a saved calculation.                                          *)
(*                                                                         *)
(* Three builds of the calculator component exist in the sources:          *)
(*   "gold"      GoldCalculator            (src/unnamed/part_000)          *)
(*   "silver"    SilverCalculator, purity selectable 925/999               *)
(*                                         (src/src/App.tsx 108-548)       *)
(*   "silver999" SilverCalculator, purity fixed at 999                     *)
(*                                         (src/src/App.tsx 550-1090)      *)
(* The variable  variant  says which one a behaviour is about.             *)
(*                                                                         *)
(* The module also has the install banner (InstallPrompt) and the service  *)
(* worker of the page; they share no state with a calculator.              *)
(*                                                                         *)
(* Texts are sequences of one-character strings, and parseFloat/parseInt   *)
(* are modelled by what they do on them.  JavaScript numbers are modelled  *)
(* as NaN, the infinities, and exact rationals times a power of ten: the   *)
(* rounding of the mantissa of IEEE doubles is not part of them.  The      *)
(* sweep is modelled a second time in IEEE 754 binary64 arithmetic         *)
(* (Sweep64), for the behaviours of SpecDoubles.                           *)
(***************************************************************************)
EXTENDS Integers, Sequences, FiniteSets, TLC

VARIABLES
    variant,            \* which build of the component
    price,              \* goldPrice / silverPrice (text)
    weight,             \* goldWeight / silverWeight (text)
    purity,             \* purity ("916", "750", "925", "999")
    minPercent,         \* minPercent (text)
    maxPercent,         \* maxPercent (text)
    errors,             \* errors: field name -> message
    results,            \* results: sequence of ResultDetail
    selectedResult,     \* selectedResult: <<>> (null) or <<r>>
    savedCalculations,  \* savedCalculations, newest first
    loadRequest,        \* loadRequest: <<>> (null) or <<q>>
    now,                \* the value Date.now() returns
    pc,                 \* "idle", or "effects" while React has effects to run
    renderedDeps,       \* the effect dependencies of the previous render
    lastOp,             \* history: the last handler that ran
    lastLoad,           \* history: <<q>> after loadCalculation(q), else <<>>
    loadSweeps,         \* history: calls of calculateAndSelect by the load effect since the last loadCalculation
    showProfitMargin,   \* showProfitMargin
    \* the component InstallPrompt
    deferredPrompt,     \* deferredPrompt: <<>> (null) or <<e>>, e the number of the event held
    showPrompt,         \* showPrompt
    isInstalled,        \* isInstalled
    installPromptDismissed, \* localStorage.getItem('installPromptDismissed'): <<>> (null) or <<"true">>
    standalone,         \* window.matchMedia('(display-mode: standalone)').matches
    listening,          \* whether the effect has added its two listeners
    userChoice,         \* <<e>> while handleInstallClick awaits the userChoice of event e, else <<>>
    session,            \* the number of the page load
    promptsFired,       \* the number of beforeinstallprompt events so far
    dismissedOnce,      \* history: 'Later' was clicked
    \* the service worker
    caches,             \* cache storage: cache name -> the URLs the cache has a response for
    swState,            \* "parsed", "installed", "activating", "activated" or "redundant"
    toDelete,           \* the caches.delete calls of the activate listener not yet done
    deletedByActivate,  \* history: the caches the activate listener deleted
    fetching,           \* <<>> or <<f>>, f the fetch event being answered
    pendingPuts,        \* the calls of caches.open(DYNAMIC_CACHE) whose callback has not run
    fetchOutcome        \* history: how the last step of the fetch listener ended

calculatorVars == <<variant, price, weight, purity, minPercent, maxPercent, errors, results,
                    selectedResult, savedCalculations, loadRequest, now, pc, renderedDeps,
                    lastOp, lastLoad, loadSweeps, showProfitMargin>>

installVars == <<deferredPrompt, showPrompt, isInstalled, installPromptDismissed, standalone,
                 listening, userChoice, session, promptsFired, dismissedOnce>>

workerVars == <<caches, swState, toDelete, deletedByActivate, fetching, pendingPuts, fetchOutcome>>

vars == <<calculatorVars, installVars, workerVars>>

(***************************************************************************)
(* JavaScript numbers: NaN, +Infinity, -Infinity, or a finite value         *)
(* (n / d) * 10^(ExpUnit * x) with n / d in lowest terms, d > 0, and x = 0  *)
(* for the value 0.  The mantissas n / d of the model are ratios of small   *)
(* integers, so the representation of a value is unique.                    *)
(***************************************************************************)
\* the step of the exponent field x: x counts powers of 10^100
ExpUnit == 100

\* Number.MAX_VALUE is 1.7976931348623157 * 10^308 = MaxMantissa.486... * 10^(ExpUnit * MaxExp)
MaxExp == 3

MaxMantissa == 179769313

NaN == [nan |-> TRUE, inf |-> 0, n |-> 0, d |-> 1, x |-> 0]

\* s = 1 for Infinity, s = -1 for -Infinity
Inf(s) == [nan |-> FALSE, inf |-> s, n |-> 0, d |-> 1, x |-> 0]

\* the values of the number type
Num == [nan : BOOLEAN, inf : {-1, 0, 1}, n : Int, d : Int, x : Int]

Abs(x) == IF x < 0 THEN -x ELSE x

RECURSIVE GCD(_, _)
GCD(a, b) == IF b = 0 THEN a ELSE GCD(b, a % b)

\* the double for (n / d) * 10^(ExpUnit * x), d > 0, with t = <<n, d, x>>: beyond
\* Number.MAX_VALUE it is an infinity, below the smallest double it is 0 (the rounding of
\* the mantissa is not modelled)
FinOf[t \in Int \X Int \X Int] ==
    LET g  == GCD(Abs(t[1]), t[2])
        n1 == t[1] \div g
        d1 == t[2] \div g
    IN  IF t[1] = 0 \/ t[3] < -(MaxExp + 1) THEN [nan |-> FALSE, inf |-> 0, n |-> 0, d |-> 1, x |-> 0]
        ELSE IF t[3] > MaxExp \/ (t[3] = MaxExp /\ Abs(n1) \div d1 > MaxMantissa)
             THEN Inf(IF t[1] < 0 THEN -1 ELSE 1)
        ELSE [nan |-> FALSE, inf |-> 0, n |-> n1, d |-> d1, x |-> t[3]]

Fin(n, d, x) == FinOf[<<n, d, x>>]

Rat(n, d) == Fin(n, d, 0)

Int2Num(i) == Fin(i, 1, 0)

\* -1, 0 or 1
Sgn(a) == IF a.inf # 0 THEN a.inf ELSE IF a.n < 0 THEN -1 ELSE IF a.n > 0 THEN 1 ELSE 0

\* p[1] * p[2]
MulOf[p \in Num \X Num] ==
    IF p[1].nan \/ p[2].nan THEN NaN
    ELSE IF p[1].inf # 0 \/ p[2].inf # 0
         THEN IF Sgn(p[1]) = 0 \/ Sgn(p[2]) = 0 THEN NaN ELSE Inf(Sgn(p[1]) * Sgn(p[2]))
    ELSE Fin(p[1].n * p[2].n, p[1].d * p[2].d, p[1].x + p[2].x)

Mul(a, b) == MulOf[<<a, b>>]

\* p[1] + p[2]: of two finite values whose exponents differ by 10^100 or more the sum is
\* the larger one
AddOf[p \in Num \X Num] ==
    IF p[1].nan \/ p[2].nan THEN NaN
    ELSE IF p[1].inf # 0 /\ p[2].inf # 0 THEN (IF p[1].inf = p[2].inf THEN p[1] ELSE NaN)
    ELSE IF p[1].inf # 0 THEN p[1]
    ELSE IF p[2].inf # 0 THEN p[2]
    ELSE IF p[1].n = 0 THEN p[2]
    ELSE IF p[2].n = 0 THEN p[1]
    ELSE IF p[1].x = p[2].x
         THEN Fin(p[1].n * p[2].d + p[2].n * p[1].d, p[1].d * p[2].d, p[1].x)
    ELSE IF p[1].x > p[2].x THEN p[1] ELSE p[2]

Add(a, b) == AddOf[<<a, b>>]

Neg(a) == Mul(Int2Num(-1), a)

Sub(a, b) == Add(a, Neg(b))

\* p[1] / p[2]
DivOf[p \in Num \X Num] ==
    IF p[1].nan \/ p[2].nan THEN NaN
    ELSE IF p[1].inf # 0
         THEN (IF p[2].inf # 0 THEN NaN ELSE Inf(p[1].inf * (IF p[2].n < 0 THEN -1 ELSE 1)))
    ELSE IF p[2].inf # 0 THEN Fin(0, 1, 0)
    ELSE IF p[2].n = 0 THEN (IF p[1].n = 0 THEN NaN ELSE Inf(Sgn(p[1])))
    ELSE IF p[2].n > 0 THEN Fin(p[1].n * p[2].d, p[1].d * p[2].n, p[1].x - p[2].x)
    ELSE Fin(-(p[1].n * p[2].d), p[1].d * (-p[2].n), p[1].x - p[2].x)

Div(a, b) == DivOf[<<a, b>>]

\* p[1] < p[2]; comparisons with NaN are false
LessOf[p \in Num \X Num] ==
    /\ ~p[1].nan
    /\ ~p[2].nan
    /\ IF p[1].inf # 0 \/ p[2].inf # 0 THEN p[1].inf < p[2].inf
       ELSE IF Sgn(p[1]) # Sgn(p[2]) THEN Sgn(p[1]) < Sgn(p[2])
       ELSE IF p[1].x = p[2].x THEN p[1].n * p[2].d < p[2].n * p[1].d
       ELSE IF Sgn(p[1]) = 1 THEN p[1].x < p[2].x ELSE p[1].x > p[2].x

Less(a, b) == LessOf[<<a, b>>]

\* p[1] <= p[2]
LessEqOf[p \in Num \X Num] == ~p[1].nan /\ ~p[2].nan /\ (p[1] = p[2] \/ LessOf[p])

LessEq(a, b) == LessEqOf[<<a, b>>]

Greater(a, b) == Less(b, a)

\* Number.isFinite
IsFinite(a) == ~a.nan /\ a.inf = 0

Zero == Int2Num(0)

Hundred == Int2Num(100)

(***************************************************************************)
(* IEEE 754 binary64 arithmetic, round to nearest, ties to even.  A finite  *)
(* double is s * m * 2^e with the sign s, the mantissa m < 2^53 and         *)
(* e >= EMin; m >= 2^52 unless e = EMin (a subnormal).  The mantissa is a   *)
(* sequence of limbs, base LimbBase, lowest limb first, no leading zero     *)
(* limb, so that a value has one representation.                            *)
(***************************************************************************)
\* 2^14: a product of two limbs, and a sum of a few of them, stays below 2^31
LimbBase == 16384

LimbBits == 14

\* the bits of the mantissa of a double
MantissaBits == 53

\* the exponent of the smallest subnormal, 2^-1074
EMin == -1074

\* the largest e: Number.MAX_VALUE is (2^53 - 1) * 2^971
EMax == 971

Pow2(k) == 2^k

Limb(A, i) == IF i >= 1 /\ i <= Len(A) THEN A[i] ELSE 0

\* A without its leading zero limbs
RECURSIVE Trim(_)
Trim(A) == IF A # <<>> /\ A[Len(A)] = 0 THEN Trim(SubSeq(A, 1, Len(A) - 1)) ELSE A

\* the limbs of the number whose columns, lowest first, are S (each below 2^31), from column i on
\* with the carry c
RECURSIVE CarryFrom(_, _, _)
CarryFrom(S, i, c) ==
    IF i > Len(S)
    THEN (IF c = 0 THEN <<>> ELSE <<c % LimbBase>> \o CarryFrom(S, i, c \div LimbBase))
    ELSE <<(S[i] + c) % LimbBase>> \o CarryFrom(S, i + 1, (S[i] + c) \div LimbBase)

BigOfColumns(S) == Trim(CarryFrom(S, 1, 0))

\* the natural number n as limbs
BigOfInt(n) == BigOfColumns(<<n % LimbBase, (n \div LimbBase) % LimbBase, n \div (LimbBase * LimbBase)>>)

MaxOf(x, y) == IF x >= y THEN x ELSE y

MinOf(x, y) == IF x <= y THEN x ELSE y

BigAdd(A, B) == BigOfColumns([i \in 1..MaxOf(Len(A), Len(B)) |-> Limb(A, i) + Limb(B, i)])

\* -1, 0 or 1 as A <, =, > B, comparing from limb i down
RECURSIVE BigCmpFrom(_, _, _)
BigCmpFrom(A, B, i) ==
    IF i = 0 THEN 0
    ELSE IF A[i] < B[i] THEN -1
    ELSE IF A[i] > B[i] THEN 1
    ELSE BigCmpFrom(A, B, i - 1)

BigCmp(A, B) ==
    IF Len(A) < Len(B) THEN -1 ELSE IF Len(A) > Len(B) THEN 1 ELSE BigCmpFrom(A, B, Len(A))

\* the limbs of A - B from limb i on with the borrow b, for A >= B
RECURSIVE BorrowFrom(_, _, _, _)
BorrowFrom(A, B, i, b) ==
    IF i > Len(A) THEN <<>>
    ELSE IF A[i] - Limb(B, i) - b < 0
         THEN <<A[i] - Limb(B, i) - b + LimbBase>> \o BorrowFrom(A, B, i + 1, 1)
         ELSE <<A[i] - Limb(B, i) - b>> \o BorrowFrom(A, B, i + 1, 0)

BigSub(A, B) == Trim(BorrowFrom(A, B, 1, 0))

\* the sum, for i from i0 on, of the low limbs of the products A[i] * B[k + 1 - i]
RECURSIVE LowSum(_, _, _, _)
LowSum(A, B, k, i0) ==
    IF i0 > Len(A) THEN 0
    ELSE ((A[i0] * Limb(B, k + 1 - i0)) % LimbBase) + LowSum(A, B, k, i0 + 1)

\* the sum, for i from i0 on, of the high limbs of the products A[i] * B[k + 1 - i]
RECURSIVE HighSum(_, _, _, _)
HighSum(A, B, k, i0) ==
    IF i0 > Len(A) THEN 0
    ELSE ((A[i0] * Limb(B, k + 1 - i0)) \div LimbBase) + HighSum(A, B, k, i0 + 1)

BigMul(A, B) ==
    IF A = <<>> \/ B = <<>> THEN <<>>
    ELSE BigOfColumns([k \in 1..(Len(A) + Len(B)) |-> LowSum(A, B, k, 1) + HighSum(A, B, k - 1, 1)])

\* A * 2^k
ShiftLeft(A, k) ==
    [i \in 1..(k \div LimbBits) |-> 0]
        \o BigOfColumns([i \in 1..Len(A) |-> A[i] * Pow2(k % LimbBits)])

\* A \div 2^k
ShiftRight(A, k) ==
    Trim([i \in 1..(Len(A) - (k \div LimbBits)) |->
            (Limb(A, i + (k \div LimbBits)) \div Pow2(k % LimbBits))
          + (Limb(A, i + (k \div LimbBits) + 1) % Pow2(k % LimbBits)) * Pow2(LimbBits - (k % LimbBits))])

\* A % 2^k
LowBits(A, k) ==
    Trim([i \in 1..MinOf(Len(A), (k \div LimbBits) + 1) |->
            IF i <= k \div LimbBits THEN A[i] ELSE A[i] % Pow2(k % LimbBits)])

\* the number of bits of the limb x
BitLenOfLimb(x) == Cardinality({k \in 0..(LimbBits - 1) : Pow2(k) <= x})

\* the number of bits of A
BitLen(A) == IF A = <<>> THEN 0 ELSE LimbBits * (Len(A) - 1) + BitLenOfLimb(A[Len(A)])

IsOdd(A) == A # <<>> /\ A[1] % 2 = 1

B64Zero == [nan |-> FALSE, inf |-> 0, s |-> 0, m |-> <<>>, e |-> 0]

\* the double s * M * 2^e for a mantissa M of at most 53 bits and e >= EMin: its mantissa has
\* 53 bits unless that takes e below EMin; it is an infinity beyond Number.MAX_VALUE
Normal(s, M, e) ==
    IF M = <<>> THEN B64Zero
    ELSE IF e + BitLen(M) - MantissaBits > EMax THEN Inf(s)
    ELSE [nan |-> FALSE, inf |-> 0, s |-> s,
          m |-> ShiftLeft(M, MinOf(MantissaBits - BitLen(M), e - EMin)),
          e |-> e - MinOf(MantissaBits - BitLen(M), e - EMin)]

\* the mantissa 2^53 that rounding up may give is 2^52 with the next exponent
Renormal(s, M, e) ==
    Normal(s, IF BitLen(M) > MantissaBits THEN ShiftRight(M, 1) ELSE M,
           IF BitLen(M) > MantissaBits THEN e + 1 ELSE e)

\* Q, or Q + 1 when the bits dropped are more than half a unit of Q, or half a unit with Q
\* odd: c is -1, 0 or 1 as the bits dropped but the sticky bit are below, at or above half
RoundedUp(Q, c, sticky) ==
    IF c > 0 \/ (c = 0 /\ (sticky \/ IsOdd(Q))) THEN BigAdd(Q, <<1>>) ELSE Q

\* N without its k low bits, rounded to nearest, ties to even
RoundedAt(N, k, sticky) ==
    IF k = 0 THEN N
    ELSE RoundedUp(ShiftRight(N, k), BigCmp(LowBits(N, k), ShiftLeft(<<1>>, k - 1)), sticky)

\* the number of low bits of N that a double for N * 2^e has no room for
DropBits(N, e) == MaxOf(0, MaxOf(BitLen(N) - MantissaBits, EMin - e))

\* the double nearest to s * (N + f) * 2^e, where 0 < f < 1 if sticky and f = 0 if not
\* (N has more than 54 bits when sticky)
Round64(s, N, e, sticky) ==
    IF N = <<>> THEN B64Zero
    ELSE Renormal(s, RoundedAt(N, DropBits(N, e), sticky), e + DropBits(N, e))

\* LimbBits bits of the quotient of a long division: R the remainder so far (R < 2 * D), q
\* the bits so far, j the number of bits to go; the result is <<q, R>>
RECURSIVE DivBits(_, _, _, _)
DivBits(R, D, q, j) ==
    IF j = 0 THEN <<q, R>>
    ELSE IF BigCmp(R, D) >= 0
         THEN DivBits(ShiftLeft(BigSub(R, D), 1), D, 2 * q + 1, j - 1)
         ELSE DivBits(ShiftLeft(R, 1), D, 2 * q, j - 1)

\* the limbs Q with the lower limb of next = <<q, R>>, and the remainder of next
DivLimbJoin(Q, next) == <<<<next[1]>> \o Q, next[2]>>

\* the next LimbBits bits of a quotient: qr = <<Q, R>> are the limbs so far and the remainder;
\* a remainder of 0 leaves a limb of 0
DivLimb(qr, D) ==
    IF qr[2] = <<>> THEN <<<<0>> \o qr[1], <<>>>>
    ELSE DivLimbJoin(qr[1], DivBits(qr[2], D, 0, LimbBits))

\* the limbs of the quotient bits of R / D, n limbs of them, in the result <<Q, R>>
RECURSIVE DivLimbs(_, _, _)
DivLimbs(R, D, n) ==
    IF n = 0 THEN <<<<>>, R>>
    ELSE DivLimb(DivLimbs(R, D, n - 1), D)

\* the double nearest to s * (Q + f) * 2^e for the 56 bits Q and the remainder of a division,
\* qr = <<Q, R>>, with f > 0 iff R > 0
QuotientOf(s, qr, e) == Round64(s, Trim(qr[1]), e - 55, qr[2] # <<>>)

\* the double nearest to s * (A / D) * 2^e for A, D > 0: A or D is shifted until they have
\* the same number of bits, and the quotient is computed to 56 bits
Quotient(s, A, D, e) ==
    QuotientOf(s, DivLimbs(ShiftLeft(A, MaxOf(0, BitLen(D) - BitLen(A))),
                           ShiftLeft(D, MaxOf(0, BitLen(A) - BitLen(D))), 4),
               e + BitLen(A) - BitLen(D))

Square(A) == BigMul(A, A)

\* 5^k as limbs
RECURSIVE Pow5(_)
Pow5(k) ==
    IF k = 0 THEN <<1>>
    ELSE IF k % 2 = 1 THEN BigMul(<<5>>, Pow5(k - 1))
    ELSE Square(Pow5(k \div 2))

\* whether the number a is held as a double
IsB64(a) == "m" \in DOMAIN a

\* the double nearest to the finite value (n / d) * 10^(ExpUnit * x), s its sign and n >= 0
\* (n < 2^31, so the value is below half the smallest double when x < -MaxExp)
B64Of(s, n, d, x) ==
    IF n = 0 \/ x < -MaxExp THEN B64Zero
    ELSE Quotient(s, BigMul(BigOfInt(n), Pow5(ExpUnit * MaxOf(x, 0))),
                  BigMul(BigOfInt(d), Pow5(ExpUnit * MaxOf(-x, 0))), ExpUnit * x)

\* the number a as a double; NaN and the infinities are as they are
B64(a) ==
    IF IsB64(a) \/ a.nan \/ a.inf # 0 THEN a
    ELSE B64Of(IF a.n < 0 THEN -1 ELSE 1, IF a.n < 0 THEN -a.n ELSE a.n, a.d, a.x)

\* the two operands p of an operation as doubles
Operands(p) == <<B64(p[1]), B64(p[2])>>

\* a number of exact arithmetic with the sign of a; NaN and the infinities are as they are
SignOnly(a) == IF IsB64(a) THEN FinOf[<<a.s, 1, 0>>] ELSE a

\* the result a of an operation that has NaN or an infinity as an operand: when finite it is 0
NonFinite(a) == IF IsFinite(a) THEN B64Zero ELSE a

\* q[1] * q[2] of finite doubles
MulFinite(q) == Round64(q[1].s * q[2].s, BigMul(q[1].m, q[2].m), q[1].e + q[2].e, FALSE)

\* the mantissa of the double a when the exponent is that of the smaller of a and b
Aligned(a, b) == ShiftLeft(a.m, a.e - MinOf(a.e, b.e))

\* |A - B|
AbsDiff(A, B) == IF BigCmp(A, B) >= 0 THEN BigSub(A, B) ELSE BigSub(B, A)

\* the double nearest to (sa * A + sb * B) * 2^e, for A, B > 0
SumOf(sa, A, sb, B, e) ==
    Round64(IF sa = sb \/ BigCmp(A, B) >= 0 THEN sa ELSE sb,
            IF sa = sb THEN BigAdd(A, B) ELSE AbsDiff(A, B), e, FALSE)

\* the exponents of two doubles further apart than this, the smaller double is less than
\* half a unit in the last place of the larger
FarApart == 60

\* q[1] + q[2] of finite doubles
AddFinite(q) ==
    IF q[1].s = 0 THEN q[2]
    ELSE IF q[2].s = 0 THEN q[1]
    ELSE IF q[1].e - q[2].e > FarApart THEN q[1]
    ELSE IF q[2].e - q[1].e > FarApart THEN q[2]
    ELSE SumOf(q[1].s, Aligned(q[1], q[2]), q[2].s, Aligned(q[2], q[1]), MinOf(q[1].e, q[2].e))

\* q[1] / q[2] of finite doubles
DivFinite(q) ==
    IF q[2].s = 0 THEN (IF q[1].s = 0 THEN NaN ELSE Inf(q[1].s))
    ELSE IF q[1].s = 0 THEN B64Zero
    ELSE Quotient(q[1].s * q[2].s, q[1].m, q[2].m, q[1].e - q[2].e)

\* -1, 0 or 1 as |a| <, =, > |b| for finite doubles other than 0
MagCmp(a, b) ==
    IF a.e - b.e > FarApart THEN 1
    ELSE IF b.e - a.e > FarApart THEN -1
    ELSE BigCmp(Aligned(a, b), Aligned(b, a))

\* q[1] < q[2] of finite doubles
LessFinite(q) ==
    IF q[1].s # q[2].s THEN q[1].s < q[2].s
    ELSE IF q[1].s = 0 THEN FALSE
    ELSE q[1].s * MagCmp(q[1], q[2]) < 0

\* the doubles
Double == [nan : {FALSE}, inf : {0}, s : {-1, 0, 1}, m : Seq(0..(LimbBase - 1)), e : Int]

\* the numbers of either arithmetic: an operand of exact arithmetic is converted to a double
Number == Num \cup Double

\* p[1] * p[2] in doubles, as JavaScript computes it
Mul64[p \in Number \X Number] ==
    IF IsFinite(p[1]) /\ IsFinite(p[2]) THEN MulFinite(Operands(p))
    ELSE NonFinite(MulOf[<<SignOnly(p[1]), SignOnly(p[2])>>])

\* p[1] + p[2] in doubles
Add64[p \in Number \X Number] ==
    IF IsFinite(p[1]) /\ IsFinite(p[2]) THEN AddFinite(Operands(p))
    ELSE NonFinite(AddOf[<<SignOnly(p[1]), SignOnly(p[2])>>])

\* p[1] / p[2] in doubles
Div64[p \in Number \X Number] ==
    IF IsFinite(p[1]) /\ IsFinite(p[2]) THEN DivFinite(Operands(p))
    ELSE NonFinite(DivOf[<<SignOnly(p[1]), SignOnly(p[2])>>])

\* p[1] < p[2] in doubles
Less64[p \in Number \X Number] ==
    IF IsFinite(p[1]) /\ IsFinite(p[2]) THEN LessFinite(Operands(p))
    ELSE LessOf[<<SignOnly(p[1]), SignOnly(p[2])>>]

(***************************************************************************)
(* parseInt(text, 10) and parseFloat(text)                                  *)
(***************************************************************************)
DigitChars == {"0", "1", "2", "3", "4", "5", "6", "7", "8", "9"}

DigitVal(c) ==
    CASE c = "0" -> 0 [] c = "1" -> 1 [] c = "2" -> 2 [] c = "3" -> 3 [] c = "4" -> 4
      [] c = "5" -> 5 [] c = "6" -> 6 [] c = "7" -> 7 [] c = "8" -> 8 [] c = "9" -> 9

\* the number of digits of t from position i on
RECURSIVE DigitRun(_, _)
DigitRun(t, i) ==
    IF i <= Len(t) /\ t[i] \in DigitChars THEN 1 + DigitRun(t, i + 1) ELSE 0

\* the value of the k digits of t from position i on
RECURSIVE DigitsValue(_, _, _)
DigitsValue(t, i, k) ==
    IF k = 0 THEN 0 ELSE DigitsValue(t, i, k - 1) * 10 + DigitVal(t[i + k - 1])

RECURSIVE Pow10(_)
Pow10(k) == IF k = 0 THEN 1 ELSE 10 * Pow10(k - 1)

HasSign(t) == Len(t) > 0 /\ t[1] \in {"-", "+"}

SignOf(t) == IF Len(t) > 0 /\ t[1] = "-" THEN -1 ELSE 1

\* parseInt(t, 10): an optional sign, then the longest run of digits; NaN when there is none
ParseInt(t) ==
    LET i0 == IF HasSign(t) THEN 2 ELSE 1
        k  == DigitRun(t, i0)
    IN  IF k = 0 THEN NaN ELSE Int2Num(SignOf(t) * DigitsValue(t, i0, k))

HasDot(t, i) == i <= Len(t) /\ t[i] = "."

HasExp(t, j) == j <= Len(t) /\ t[j] \in {"e", "E"}

HasExpSign(t, j) == HasExp(t, j) /\ j + 1 <= Len(t) /\ t[j + 1] \in {"-", "+"}

\* the exponent whose digits start at position j0 of t, its "e" being at position j
ExponentFrom(t, j, j0) ==
    (IF HasExpSign(t, j) /\ t[j + 1] = "-" THEN -1 ELSE 1) * DigitsValue(t, j0, DigitRun(t, j0))

\* the decimal exponent written at position j of t: "e", an optional sign, digits; 0 if none
ExponentAt(t, j) ==
    IF ~HasExp(t, j) THEN 0 ELSE ExponentFrom(t, j, IF HasExpSign(t, j) THEN j + 2 ELSE j + 1)

\* the double for (m / 10^f) * 10^ev
FloatOf(m, f, ev) ==
    IF ev >= 0 THEN Fin(m * Pow10(ev % ExpUnit), Pow10(f), ev \div ExpUnit)
    ELSE Fin(m, Pow10(f) * Pow10((-ev) % ExpUnit), -((-ev) \div ExpUnit))

\* parseFloat of a text with k digits from position i0 on and f digits after the "."
ParseFloatFrom(t, i0, k, f) ==
    IF k = 0 /\ f = 0 THEN NaN
    ELSE FloatOf(SignOf(t) * (DigitsValue(t, i0, k) * Pow10(f) + DigitsValue(t, i0 + k + 1, f)),
                 f, ExponentAt(t, i0 + k + (IF HasDot(t, i0 + k) THEN 1 + f ELSE 0)))

ParseFloatDigits(t, i0, k) ==
    ParseFloatFrom(t, i0, k, IF HasDot(t, i0 + k) THEN DigitRun(t, i0 + k + 1) ELSE 0)

ParseFloatUnsigned(t, i0) == ParseFloatDigits(t, i0, DigitRun(t, i0))

\* parseFloat(t): an optional sign, digits, an optional "." and digits, an optional exponent
\* ("e", an optional sign, digits); NaN when there is no digit before the exponent
ParseFloat(t) == ParseFloatUnsigned(t, IF HasSign(t) THEN 2 ELSE 1)

(***************************************************************************)
(* The three builds and their purity tables                                *)
(***************************************************************************)
Variants == {"gold", "silver", "silver999"}

\* the purities the build's CalculationParams type allows the session to hold
Purities(v) ==
    CASE v = "gold"      -> {"916", "750"}
      [] v = "silver"    -> {"925", "999"}
      [] v = "silver999" -> {"999"}

\* the initial value of the purity state
InitialPurity(v) ==
    CASE v = "gold" -> "916" [] v = "silver" -> "925" [] v = "silver999" -> "999"

\* purityDecimal as calculateAndSelect computes it
SweepPurityDecimal(v, pur) ==
    CASE v = "gold"      -> IF pur = "916" THEN Rat(92, 100) ELSE Rat(75, 100)
      [] v = "silver"    -> IF pur = "925" THEN Rat(925, 1000) ELSE Rat(999, 1000)
      [] v = "silver999" -> Rat(10, 10)

\* purityDecimal as calculateTotalFromParams computes it
ReplayPurityDecimal(v, pur) ==
    CASE v = "gold"      -> IF pur = "916" THEN Rat(92, 100) ELSE Rat(75, 100)
      [] v = "silver"    -> IF pur = "925" THEN Rat(925, 1000) ELSE Rat(999, 1000)
      [] v = "silver999" -> IF pur = "925" THEN Rat(925, 1000) ELSE Rat(999, 1000)

\* a variant of the purity effect that sets the initial range of the build for every purity
DefaultRangeOfBuild(v, pur) ==
    CASE v = "gold"   -> [min |-> <<"8">>, max |-> <<"1", "4">>]
      [] v = "silver" -> [min |-> <<"1", "2">>, max |-> <<"2", "0">>]

\* the range the purity effect sets (the build "silver999" has no such effect)
DefaultRange(v, pur) ==
    CASE v = "gold" /\ pur = "916"   -> [min |-> <<"8">>, max |-> <<"1", "4">>]
      [] v = "gold" /\ pur = "750"   -> [min |-> <<"1", "0">>, max |-> <<"1", "8">>]
      [] v = "silver" /\ pur = "925" -> [min |-> <<"1", "2">>, max |-> <<"2", "0">>]
      [] v = "silver" /\ pur = "999" -> [min |-> <<"8">>, max |-> <<"1", "5">>]

\* the initial values of minPercent and maxPercent
InitialRange(v) ==
    CASE v = "gold"      -> [min |-> <<"8">>, max |-> <<"1", "4">>]
      [] v = "silver"    -> [min |-> <<"1", "2">>, max |-> <<"2", "0">>]
      [] v = "silver999" -> [min |-> <<"8">>, max |-> <<"1", "5">>]

(***************************************************************************)
(* validate                                                                *)
(***************************************************************************)
NoErrors == [f \in {} |-> ""]

Put(m, k, msg) == [f \in DOMAIN m \cup {k} |-> IF f = k THEN msg ELSE m[f]]

\* !price || parseFloat(price) <= 0
PriceRuleFails(p) == p = <<>> \/ LessEq(ParseFloat(p), Zero)

\* !weight || parseFloat(weight) <= 0
WeightRuleFails(w) == w = <<>> \/ LessEq(ParseFloat(w), Zero)

\* !minPercent || parseInt(minPercent, 10) < 0
MinRuleFails(mn) == mn = <<>> \/ Less(ParseInt(mn), Zero)

\* !maxPercent || parseInt(maxPercent, 10) < 0
MaxRuleFails(mx) == mx = <<>> \/ Less(ParseInt(mx), Zero)

\* a variant of the range rule that is skipped when min or max is itself invalid (an else-if)
RangeRuleOnlyWhenBothValid(mn, mx) ==
    ~MinRuleFails(mn) /\ ~MaxRuleFails(mx) /\ Greater(ParseInt(mn), ParseInt(mx))

\* parseInt(minPercent, 10) > parseInt(maxPercent, 10)
RangeRuleFails(mn, mx) == Greater(ParseInt(mn), ParseInt(mx))

\* a variant of validate that stops at the first rule that fails
ValidateShortCircuit(p, w, mn, mx) ==
    IF PriceRuleFails(p) THEN Put(NoErrors, "price", "Invalid price")
    ELSE IF WeightRuleFails(w) THEN Put(NoErrors, "weight", "Invalid weight")
    ELSE IF MinRuleFails(mn) THEN Put(NoErrors, "minPercent", "Invalid %")
    ELSE IF MaxRuleFails(mx) THEN Put(NoErrors, "maxPercent", "Invalid %")
    ELSE IF RangeRuleFails(mn, mx) THEN Put(NoErrors, "maxPercent", "Max must be >= min")
    ELSE NoErrors

\* if (failed) newErrors[k] = msg
PutIf(m, failed, k, msg) == IF failed THEN Put(m, k, msg) ELSE m

\* newErrors as validate builds it, one if statement after the other
Validate(p, w, mn, mx) ==
    LET e1 == PutIf(NoErrors, PriceRuleFails(p), "price", "Invalid price")
        e2 == PutIf(e1, WeightRuleFails(w), "weight", "Invalid weight")
        e3 == PutIf(e2, MinRuleFails(mn), "minPercent", "Invalid %")
        e4 == PutIf(e3, MaxRuleFails(mx), "maxPercent", "Invalid %")
        e5 == PutIf(e4, RangeRuleFails(mn, mx), "maxPercent", "Max must be >= min")
    IN  e5

\* Object.keys(newErrors).length === 0
IsValid(errs) == DOMAIN errs = {}

(***************************************************************************)
(* The sweep of calculateAndSelect and the replay                          *)
(***************************************************************************)
\* Math.round(a * 100) / 100 of a finite value without exponent
RoundCentsOf[a \in Num] ==
    IF ~IsFinite(a) \/ a.x # 0 THEN a ELSE Rat((2 * 100 * a.n + a.d) \div (2 * a.d), 100)

RoundCents(a) == RoundCentsOf[a]

\* a variant of the loop body that rounds the total to two decimals
ResultDetailRounded(pr, wt, purityDecimal, i) ==
    LET wastagePercentDecimal == Div(Int2Num(i), Hundred)
        purityValue  == Mul(Mul(wt, purityDecimal), pr)
        wastageValue == Mul(Mul(wt, wastagePercentDecimal), pr)
        total        == RoundCents(Add(purityValue, wastageValue))
        rate         == Mul(pr, purityDecimal)
        wastageInGrams == IF Greater(rate, Zero) THEN Div(wastageValue, rate) ELSE Zero
    IN  [percent |-> i, wastageValue |-> wastageValue, purityValue |-> purityValue,
         total |-> total, wastageInGrams |-> wastageInGrams]

\* a variant of the loop body whose purityValue includes the wastage percent
ResultDetailPurityByPercent(pr, wt, purityDecimal, i) ==
    LET wastagePercentDecimal == Div(Int2Num(i), Hundred)
        purityValue  == Mul(Mul(wt, Add(purityDecimal, wastagePercentDecimal)), pr)
        wastageValue == Mul(Mul(wt, wastagePercentDecimal), pr)
        total        == Add(purityValue, wastageValue)
        rate         == Mul(pr, purityDecimal)
        wastageInGrams == IF Greater(rate, Zero) THEN Div(wastageValue, rate) ELSE Zero
    IN  [percent |-> i, wastageValue |-> wastageValue, purityValue |-> purityValue,
         total |-> total, wastageInGrams |-> wastageInGrams]

\* a variant of the loop body that divides the wastage value by the price of the pure metal
ResultDetailGramsByPrice(pr, wt, purityDecimal, i) ==
    LET wastagePercentDecimal == Div(Int2Num(i), Hundred)
        purityValue  == Mul(Mul(wt, purityDecimal), pr)
        wastageValue == Mul(Mul(wt, wastagePercentDecimal), pr)
        total        == Add(purityValue, wastageValue)
        wastageInGrams == IF Greater(pr, Zero) THEN Div(wastageValue, pr) ELSE Zero
    IN  [percent |-> i, wastageValue |-> wastageValue, purityValue |-> purityValue,
         total |-> total, wastageInGrams |-> wastageInGrams]

\* the body of the for loop: the ResultDetail of percent i
ResultDetail(pr, wt, purityDecimal, i) ==
    LET wastagePercentDecimal == Div(Int2Num(i), Hundred)
        purityValue  == Mul(Mul(wt, purityDecimal), pr)
        wastageValue == Mul(Mul(wt, wastagePercentDecimal), pr)
        total        == Add(purityValue, wastageValue)
        rate         == Mul(pr, purityDecimal)
        wastageInGrams == IF Greater(rate, Zero) THEN Div(wastageValue, rate) ELSE Zero
    IN  [percent |-> i, wastageValue |-> wastageValue, purityValue |-> purityValue,
         total |-> total, wastageInGrams |-> wastageInGrams]

\* for (let i = min; i <= max; i++): no iteration when min or max is NaN
LoopRange(min, max) ==
    IF min.nan \/ max.nan \/ min.n > max.n THEN <<>>
    ELSE [k \in 1..(max.n - min.n + 1) |-> min.n + k - 1]

\* newResults for the inputs p, w, pur, mn, mx
Sweep(v, p, w, pur, mn, mx) ==
    LET pr == ParseFloat(p)
        wt == ParseFloat(w)
        pd == SweepPurityDecimal(v, pur)
        is == LoopRange(ParseInt(mn), ParseInt(mx))
    IN  [k \in 1..Len(is) |-> ResultDetail(pr, wt, pd, is[k])]

\* the body of the for loop in doubles: every operation rounds its result to a double
ResultDetail64(pr, wt, purityDecimal, i) ==
    LET wastagePercentDecimal == Div64[<<Int2Num(i), Hundred>>]
        purityValue  == Mul64[<<Mul64[<<wt, purityDecimal>>], pr>>]
        wastageValue == Mul64[<<Mul64[<<wt, wastagePercentDecimal>>], pr>>]
        total        == Add64[<<purityValue, wastageValue>>]
        rate         == Mul64[<<pr, purityDecimal>>]
        wastageInGrams == IF Less64[<<Zero, rate>>] THEN Div64[<<wastageValue, rate>>] ELSE B64Zero
    IN  [percent |-> i, wastageValue |-> wastageValue, purityValue |-> purityValue,
         total |-> total, wastageInGrams |-> wastageInGrams]

\* newResults in doubles: parseFloat gives the double nearest to the decimal text, and the
\* purity fraction is the double nearest to its decimal literal
Sweep64(v, p, w, pur, mn, mx) ==
    LET pr == B64(ParseFloat(p))
        wt == B64(ParseFloat(w))
        pd == B64(SweepPurityDecimal(v, pur))
        is == LoopRange(ParseInt(mn), ParseInt(mx))
    IN  [k \in 1..Len(is) |-> ResultDetail64(pr, wt, pd, is[k])]

\* newResults.find(r => r.percent === selectedPercent): <<>> when there is none
FindPercent(rs, sp) ==
    LET hits == {k \in 1..Len(rs) : rs[k].percent = sp}
    IN  IF hits = {} THEN <<>>
        ELSE <<rs[CHOOSE k \in hits : \A j \in hits : k <= j]>>

\* newResults[0] || null
FirstOrNull(rs) == IF rs = <<>> THEN <<>> ELSE <<rs[1]>>

\* a variant of the selection that selects nothing
SelectNothing(rs, target) == <<>>

\* a variant of the selection that ignores the target percent
SelectFirstOnly(rs, target) == IF rs = <<>> THEN <<>> ELSE <<rs[1]>>

\* the selection calculateAndSelect makes after the sweep; target is <<>> (undefined) or <<p>>
SelectAfterSweep(rs, target) ==
    IF target # <<>>
    THEN IF FindPercent(rs, target[1]) # <<>> THEN FindPercent(rs, target[1]) ELSE FirstOrNull(rs)
    ELSE FirstOrNull(rs)

\* a variant of calculateAndSelect without the early return
SweepAlways(errs) == TRUE

\* whether calculateAndSelect goes on to the sweep
SweepAllowed(errs) == IsValid(errs)

\* calculateAndSelect(target) on the inputs p, w, pur, mn, mx: the errors, results and selection it sets
CalculateAndSelect(v, p, w, pur, mn, mx, target) ==
    LET errs == Validate(p, w, mn, mx)
        rs   == Sweep(v, p, w, pur, mn, mx)
    IN  IF ~SweepAllowed(errs)
        THEN [errors |-> errs, results |-> <<>>, selectedResult |-> <<>>]
        ELSE [errors |-> errs, results |-> rs, selectedResult |-> SelectAfterSweep(rs, target)]

\* calculateTotalFromParams(params)
CalculateTotalFromParams(v, q) ==
    LET pr == ParseFloat(q.price)
        wt == ParseFloat(q.weight)
        purityDecimal == ReplayPurityDecimal(v, q.purity)
        percent == IF q.selectedPercent # <<>> THEN Int2Num(q.selectedPercent[1])
                   ELSE ParseInt(q.minPercent)
        wastagePercentDecimal == IF percent.nan THEN NaN ELSE Div(percent, Hundred)
        purityValue  == Mul(Mul(wt, purityDecimal), pr)
        wastageValue == Mul(Mul(wt, wastagePercentDecimal), pr)
    IN  Add(purityValue, wastageValue)

(***************************************************************************)
(* The saved-calculation store                                             *)
(***************************************************************************)
\* prev.slice(0, 9): the 9 is the literal of handleSave
SliceEnd == 9

\* a variant that keeps one entry more: prev.slice(0, 10)
SliceOneMore(prev) == SubSeq(prev, 1, IF Len(prev) < SliceEnd + 1 THEN Len(prev) ELSE SliceEnd + 1)

\* a variant that keeps one entry fewer: prev.slice(0, 8)
SliceOneFewer(prev) == SubSeq(prev, 1, IF Len(prev) < SliceEnd - 1 THEN Len(prev) ELSE SliceEnd - 1)

\* prev.slice(0, SliceEnd)
Slice(prev) == SubSeq(prev, 1, IF Len(prev) < SliceEnd THEN Len(prev) ELSE SliceEnd)

\* a variant that puts the new entry last: [...prev.slice(0, 9), newSave]
AppendSave(newSave, prev) == SubSeq(prev, 1, IF Len(prev) < SliceEnd THEN Len(prev) ELSE SliceEnd) \o <<newSave>>

\* prev => [newSave, ...prev.slice(0, 9)]
PrependSave(newSave, prev) == <<newSave>> \o Slice(prev)

\* a variant of the filter that drops the oldest entry when no entry has the id
RemoveIdOrOldest(prev, id) ==
    IF \E k \in 1..Len(prev) : prev[k].id = id THEN SelectSeq(prev, LAMBDA c : c.id # id)
    ELSE SubSeq(prev, 1, Len(prev) - 1)

\* prev => prev.filter(c => c.id !== id)
RemoveId(prev, id) == SelectSeq(prev, LAMBDA c : c.id # id)

\* selectedResult?.percent
SelectedPercentOf(sel) == IF sel = <<>> THEN <<>> ELSE <<sel[1].percent>>

\* the CalculationParams handleSave builds; Date.now().toString() is modelled by the number itself
NewSave(t, p, w, pur, mn, mx, sel) ==
    [id |-> t, price |-> p, weight |-> w, purity |-> pur, minPercent |-> mn,
     maxPercent |-> mx, selectedPercent |-> SelectedPercentOf(sel)]

(***************************************************************************)
(* Bounds and the texts the number inputs deliver                          *)
(***************************************************************************)
\* the clock runs from 0 to MaxClock
MaxClock == 1

\* in Spec and SpecInputs the user saves only while fewer than MaxStored calculations are stored
MaxStored == 1

\* the inputs the session of SpecStore holds throughout
StorePrice == <<"5">>

\* the price texts typed in SpecStore: the field cleared, and the price typed again
StorePriceTexts == {<<>>, StorePrice}

StoreWeight == <<"2">>

StoreMinPercent == <<"9">>

StoreMaxPercent == <<"9">>

\* the texts typed into the inputs in Spec
SessionPriceTexts == {<<>>, <<"5">>}

SessionWeightTexts == {<<"2">>}

SessionMinTexts == {<<".", "5">>}

SessionMaxTexts == {<<"9">>}

\* the texts the inputs hold at the start of SpecInputs
WidePriceTexts == {<<>>, <<"0">>, <<"-", "1">>, <<".", "5">>, <<"5">>, <<"1", "e", "2", "0", "0">>}

WideWeightTexts == {<<>>, <<"0">>, <<"2">>, <<"1", "e", "2", "0", "0">>}

WidePercentTexts ==
    {<<>>, <<"0">>, <<"1">>, <<"3">>, <<"1", "0">>, <<"-", "1">>, <<"-", "2">>,
     <<".", "5">>, <<"2", ".", "5">>}

(***************************************************************************)
(* The install banner: the component InstallPrompt (src/src/App.tsx)       *)
(***************************************************************************)
\* the beforeinstallprompt events of a behaviour are numbered 1..MaxPrompts
MaxPrompts == 3

\* a behaviour has at most MaxSessions page loads
MaxSessions == 3

\* the render guard: nothing is rendered if (isInstalled || !showPrompt || !deferredPrompt)
BannerVisible == ~(isInstalled \/ ~showPrompt \/ deferredPrompt = <<>>)

\* the component after it has mounted and its effect has run, the display mode being
\* standalone (sa) or not, in a browser profile whose localStorage holds the item stored
InitInstallPrompt(sa, stored) ==
    /\ standalone = sa
    /\ deferredPrompt = <<>>
    /\ showPrompt = FALSE
    /\ isInstalled = sa
    /\ listening = ~sa
    /\ userChoice = <<>>
    /\ installPromptDismissed = stored
    /\ session = 1
    /\ promptsFired = 0
    /\ dismissedOnce = FALSE

\* a variant of the handler that shows the banner whatever localStorage holds
ShowOnEveryPrompt(dismissed, shown) == TRUE

\* showPrompt after handleBeforeInstallPrompt: if (!dismissed) setShowPrompt(true)
ShowOnPrompt(dismissed, shown) == IF dismissed = <<>> THEN TRUE ELSE shown

\* handleBeforeInstallPrompt(e): the browser offers the installation
HandleBeforeInstallPrompt ==
    /\ listening
    /\ promptsFired < MaxPrompts
    /\ promptsFired' = promptsFired + 1
    /\ deferredPrompt' = <<promptsFired + 1>>
    /\ showPrompt' = ShowOnPrompt(installPromptDismissed, showPrompt)
    /\ UNCHANGED <<isInstalled, installPromptDismissed, standalone, listening, userChoice,
                   session, dismissedOnce>>
    /\ UNCHANGED <<calculatorVars, workerVars>>

\* the listener of appinstalled
HandleAppInstalled ==
    /\ listening
    /\ isInstalled' = TRUE
    /\ showPrompt' = FALSE
    /\ deferredPrompt' = <<>>
    /\ UNCHANGED <<installPromptDismissed, standalone, listening, userChoice, session,
                   promptsFired, dismissedOnce>>
    /\ UNCHANGED <<calculatorVars, workerVars>>

\* handleInstallClick up to its await: deferredPrompt.prompt(), then it waits for userChoice
HandleInstallClick ==
    /\ BannerVisible
    /\ userChoice = <<>>
    /\ userChoice' = deferredPrompt
    /\ UNCHANGED <<deferredPrompt, showPrompt, isInstalled, installPromptDismissed, standalone,
                   listening, session, promptsFired, dismissedOnce>>
    /\ UNCHANGED <<calculatorVars, workerVars>>

\* handleInstallClick after its await: the outcome is only logged
UserChoiceSettles ==
    /\ userChoice # <<>>
    /\ deferredPrompt' = <<>>
    /\ showPrompt' = FALSE
    /\ userChoice' = <<>>
    /\ UNCHANGED <<isInstalled, installPromptDismissed, standalone, listening, session,
                   promptsFired, dismissedOnce>>
    /\ UNCHANGED <<calculatorVars, workerVars>>

\* handleDismiss: the button 'Later'
HandleDismiss ==
    /\ BannerVisible
    /\ showPrompt' = FALSE
    /\ installPromptDismissed' = <<"true">>
    /\ dismissedOnce' = TRUE
    /\ UNCHANGED <<deferredPrompt, isInstalled, standalone, listening, userChoice, session,
                   promptsFired>>
    /\ UNCHANGED <<calculatorVars, workerVars>>

\* the page is loaded again: the component state starts afresh, localStorage stays
Reload ==
    /\ session < MaxSessions
    /\ session' = session + 1
    /\ \E sa \in BOOLEAN :
          /\ standalone' = sa
          /\ isInstalled' = sa
          /\ listening' = ~sa
    /\ deferredPrompt' = <<>>
    /\ showPrompt' = FALSE
    /\ userChoice' = <<>>
    /\ UNCHANGED <<installPromptDismissed, promptsFired, dismissedOnce>>
    /\ UNCHANGED <<calculatorVars, workerVars>>

(***************************************************************************)
(* The service worker (src/unnamed/part_000 1-108)                         *)
(***************************************************************************)
CACHE_NAME == "nl-calculator-v2"

STATIC_CACHE == "nl-calculator-static-v2"

DYNAMIC_CACHE == "nl-calculator-dynamic-v2"

\* the cache names cache storage may hold when the worker is installed: those of this
\* version and those of an earlier one
CacheNamesBefore ==
    {CACHE_NAME, STATIC_CACHE, DYNAMIC_CACHE,
     "nl-calculator-v1", "nl-calculator-static-v1", "nl-calculator-dynamic-v1"}

\* the URLs of the requests: the page, an icon of urlsToCache, a script, the manifest, an
\* API call, and an image of a browser extension
RootUrl == <<"h", "t", "t", "p", ":", "/">>

IconUrl == <<"h", "t", "t", "p", ":", "/", "i", ".", "p", "n", "g">>

ScriptUrl == <<"h", "t", "t", "p", ":", "/", "a", ".", "j", "s">>

ManifestUrl == <<"h", "t", "t", "p", ":", "/", "m", ".", "j", "s", "o", "n">>

ApiUrl == <<"h", "t", "t", "p", ":", "/", "a", "p", "i">>

ExtensionUrl == <<"c", "h", "r", "o", "m", "e", ":", "/", "a", ".", "p", "n", "g">>

\* urlsToCache, as far as the requests of the model go
UrlsToCache == {RootUrl, IconUrl}

Requests ==
    [method : {"GET", "POST"}, url : {RootUrl, IconUrl, ScriptUrl, ManifestUrl, ApiUrl, ExtensionUrl}]

\* what fetch(request) resolves to
Responses ==
    {[status |-> 200, type |-> "basic"], [status |-> 404, type |-> "basic"],
     [status |-> 0, type |-> "error"]}

\* request.url.startsWith(p)
StartsWith(t, p) == Len(t) >= Len(p) /\ SubSeq(t, 1, Len(p)) = p

\* request.url.includes(p)
Includes(t, p) == \E i \in 1..(Len(t) - Len(p) + 1) : SubSeq(t, i, i + Len(p) - 1) = p

\* the substrings the fetch handler looks for
AssetExtensions ==
    {<<".", "j", "s">>, <<".", "c", "s", "s">>, <<".", "w", "o", "f", "f">>,
     <<".", "w", "o", "f", "f", "2">>, <<".", "p", "n", "g">>, <<".", "j", "p", "g">>,
     <<".", "s", "v", "g">>}

IsAssetUrl(url) == \E x \in AssetExtensions : Includes(url, x)

\* caches.open(name), then cache.put of every url of urls
PutAll(cs, name, urls) ==
    [n \in DOMAIN cs \cup {name} |->
        IF n = name THEN (IF n \in DOMAIN cs THEN cs[n] ELSE {}) \cup urls ELSE cs[n]]

\* caches.match(request): <<>> (undefined) or the cached response
Match(cs, url) == IF \E n \in DOMAIN cs : url \in cs[n] THEN <<url>> ELSE <<>>

\* the worker before its install event, cache storage holding empty caches of the names names
InitServiceWorker(names) ==
    /\ caches = [n \in names |-> {}]
    /\ swState = "parsed"
    /\ toDelete = {}
    /\ deletedByActivate = {}
    /\ fetching = <<>>
    /\ pendingPuts = {}
    /\ fetchOutcome = "none"

\* the install listener: cache.addAll(urlsToCache), then skipWaiting; the worker is
\* discarded when addAll fails
InstallWorker ==
    /\ swState = "parsed"
    /\ \/ /\ caches' = PutAll(caches, STATIC_CACHE, UrlsToCache)
          /\ swState' = "installed"
       \/ /\ caches' = PutAll(caches, STATIC_CACHE, {})
          /\ swState' = "redundant"
    /\ UNCHANGED <<toDelete, deletedByActivate, fetching, pendingPuts, fetchOutcome>>
    /\ UNCHANGED <<calculatorVars, installVars>>

\* a variant of the test that keeps only the static and the dynamic cache
KeptStaticAndDynamic(cacheName) == cacheName = STATIC_CACHE \/ cacheName = DYNAMIC_CACHE

\* the caches the activate listener leaves: the negation of its if condition
Kept(cacheName) ==
    ~(cacheName # STATIC_CACHE /\ cacheName # DYNAMIC_CACHE /\ cacheName # CACHE_NAME)

\* the activate listener up to Promise.all: caches.keys() and the calls of caches.delete
ActivateStart ==
    /\ swState = "installed"
    /\ swState' = "activating"
    /\ toDelete' = {cacheName \in DOMAIN caches : ~Kept(cacheName)}
    /\ UNCHANGED <<caches, deletedByActivate, fetching, pendingPuts, fetchOutcome>>
    /\ UNCHANGED <<calculatorVars, installVars>>

\* one caches.delete(cacheName) takes effect
ActivateDelete ==
    /\ swState = "activating"
    /\ \E cacheName \in toDelete :
          /\ caches' = [n \in DOMAIN caches \ {cacheName} |-> caches[n]]
          /\ toDelete' = toDelete \ {cacheName}
          /\ deletedByActivate' = deletedByActivate \cup {cacheName}
    /\ UNCHANGED <<swState, fetching, pendingPuts, fetchOutcome>>
    /\ UNCHANGED <<calculatorVars, installVars>>

\* Promise.all has resolved: clients.claim(), and the handler has completed
ActivateDone ==
    /\ swState = "activating"
    /\ toDelete = {}
    /\ swState' = "activated"
    /\ UNCHANGED <<caches, toDelete, deletedByActivate, fetching, pendingPuts, fetchOutcome>>
    /\ UNCHANGED <<calculatorVars, installVars>>

\* the fetch listener up to caches.match: it returns at once for a request that is not a
\* GET or whose URL does not start with 'http'
FetchEvent(request) ==
    /\ swState = "activated"
    /\ fetching = <<>>
    /\ IF request.method # "GET" \/ ~StartsWith(request.url, <<"h", "t", "t", "p">>)
       THEN /\ fetching' = <<>>
            /\ fetchOutcome' = "ignored"
       ELSE /\ fetching' = <<[request |-> request, cachedResponse |-> Match(caches, request.url)]>>
            /\ fetchOutcome' = "matching"
    /\ UNCHANGED <<caches, swState, toDelete, deletedByActivate, pendingPuts>>
    /\ UNCHANGED <<calculatorVars, installVars>>

\* the callback of caches.match when there is a cached response: it is the answer
RespondFromCache ==
    /\ fetching # <<>>
    /\ fetching[1].cachedResponse # <<>>
    /\ fetching' = <<>>
    /\ fetchOutcome' = "cached"
    /\ UNCHANGED <<caches, swState, toDelete, deletedByActivate, pendingPuts>>
    /\ UNCHANGED <<calculatorVars, installVars>>

\* the callback of fetch(request) for the response networkResponse: a response with status
\* 200 for a URL with one of the substrings is handed to caches.open(DYNAMIC_CACHE)
RespondFromNetwork(networkResponse) ==
    /\ fetching # <<>>
    /\ fetching[1].cachedResponse = <<>>
    /\ fetching' = <<>>
    /\ IF networkResponse.status # 200 \/ networkResponse.type = "error"
       THEN /\ pendingPuts' = pendingPuts
            /\ fetchOutcome' = "passed"
       ELSE IF IsAssetUrl(fetching[1].request.url)
            THEN /\ pendingPuts' = pendingPuts \cup
                        {[request |-> fetching[1].request,
                          cachedResponse |-> fetching[1].cachedResponse,
                          responseToCache |-> networkResponse]}
                 /\ fetchOutcome' = "caching"
            ELSE /\ pendingPuts' = pendingPuts
                 /\ fetchOutcome' = "fetched"
    /\ UNCHANGED <<caches, swState, toDelete, deletedByActivate>>
    /\ UNCHANGED <<calculatorVars, installVars>>

\* fetch(request) rejects (offline): the catch callback answers a document request from the
\* caches and stores nothing
NetworkFails ==
    /\ fetching # <<>>
    /\ fetching[1].cachedResponse = <<>>
    /\ fetching' = <<>>
    /\ fetchOutcome' = "offline"
    /\ UNCHANGED <<caches, swState, toDelete, deletedByActivate, pendingPuts>>
    /\ UNCHANGED <<calculatorVars, installVars>>

\* the callback of caches.open(DYNAMIC_CACHE): cache.put(request, responseToCache)
PutDynamic ==
    /\ \E p \in pendingPuts :
          /\ caches' = PutAll(caches, DYNAMIC_CACHE, {p.request.url})
          /\ pendingPuts' = pendingPuts \ {p}
    /\ fetchOutcome' = "stored"
    /\ UNCHANGED <<swState, toDelete, deletedByActivate, fetching>>
    /\ UNCHANGED <<calculatorVars, installVars>>

(***************************************************************************)
(* The component: state, handlers and effects                              *)
(***************************************************************************)
\* the values the effects depend on: [purity], and [loadRequest, calculateAndSelect],
\* where calculateAndSelect is a new function whenever one of its inputs changed
Deps == <<price, weight, purity, minPercent, maxPercent, loadRequest>>

\* after a handler's state updates React renders and runs the effects whose dependencies changed
AfterHandler(op) ==
    /\ renderedDeps' = Deps
    /\ pc' = IF Deps' # Deps THEN "effects" ELSE "idle"
    /\ lastOp' = op
    /\ UNCHANGED <<showProfitMargin, installVars, workerVars>>

NotALoad == lastLoad' = <<>> /\ loadSweeps' = 0

\* the install banner and the service worker as they are throughout a behaviour of a
\* calculator: the banner mounted in a browser tab, the worker not yet installed
PwaAtRest == InitInstallPrompt(FALSE, <<>>) /\ InitServiceWorker({})

\* the state after the component is constructed and its first effects have run
InitSession(v) ==
    /\ showProfitMargin = FALSE
    /\ PwaAtRest
    /\ variant = v
    /\ price = <<>>
    /\ weight = <<>>
    /\ purity = InitialPurity(v)
    /\ minPercent = InitialRange(v).min
    /\ maxPercent = InitialRange(v).max
    /\ errors = NoErrors
    /\ results = <<>>
    /\ selectedResult = <<>>
    /\ savedCalculations = <<>>
    /\ loadRequest = <<>>
    /\ now = 0
    /\ pc = "idle"
    /\ renderedDeps = <<<<>>, <<>>, InitialPurity(v), InitialRange(v).min, InitialRange(v).max, <<>>>>
    /\ lastOp = "init"
    /\ lastLoad = <<>>
    /\ loadSweeps = 0

Init == \E v \in Variants : InitSession(v)

\* onChange of the price input: setGoldPrice(e.target.value)
SetPrice(t) ==
    /\ pc = "idle"
    /\ price' = t
    /\ UNCHANGED <<variant, weight, purity, minPercent, maxPercent, errors, results,
                   selectedResult, savedCalculations, loadRequest, now>>
    /\ NotALoad
    /\ AfterHandler("edit")

\* onChange of the weight input
SetWeight(t) ==
    /\ pc = "idle"
    /\ weight' = t
    /\ UNCHANGED <<variant, price, purity, minPercent, maxPercent, errors, results,
                   selectedResult, savedCalculations, loadRequest, now>>
    /\ NotALoad
    /\ AfterHandler("edit")

\* onChange of the min wastage input
SetMinPercent(t) ==
    /\ pc = "idle"
    /\ minPercent' = t
    /\ UNCHANGED <<variant, price, weight, purity, maxPercent, errors, results,
                   selectedResult, savedCalculations, loadRequest, now>>
    /\ NotALoad
    /\ AfterHandler("edit")

\* onChange of the max wastage input
SetMaxPercent(t) ==
    /\ pc = "idle"
    /\ maxPercent' = t
    /\ UNCHANGED <<variant, price, weight, purity, minPercent, errors, results,
                   selectedResult, savedCalculations, loadRequest, now>>
    /\ NotALoad
    /\ AfterHandler("edit")

\* onChange of the purity select (the build "silver999" has none)
SetPurity(pur) ==
    /\ pc = "idle"
    /\ variant # "silver999"
    /\ pur \in Purities(variant)
    /\ purity' = pur
    /\ UNCHANGED <<variant, price, weight, minPercent, maxPercent, errors, results,
                   selectedResult, savedCalculations, loadRequest, now>>
    /\ NotALoad
    /\ AfterHandler("purity")

\* handleCalculate: calculateAndSelect()
HandleCalculate ==
    /\ pc = "idle"
    /\ LET out == CalculateAndSelect(variant, price, weight, purity, minPercent, maxPercent, <<>>)
       IN  /\ errors' = out.errors
           /\ results' = out.results
           /\ selectedResult' = out.selectedResult
    /\ UNCHANGED <<variant, price, weight, purity, minPercent, maxPercent,
                   savedCalculations, loadRequest, now>>
    /\ NotALoad
    /\ AfterHandler("calculate")

\* handleCalculate with the sweep in doubles: calculateAndSelect() with no target percent
\* validates, sweeps when the inputs are valid, and selects the first result
HandleCalculate64 ==
    /\ pc = "idle"
    /\ errors' = Validate(price, weight, minPercent, maxPercent)
    /\ results' = IF SweepAllowed(errors')
                  THEN Sweep64(variant, price, weight, purity, minPercent, maxPercent)
                  ELSE <<>>
    /\ selectedResult' = SelectAfterSweep(results', <<>>)
    /\ UNCHANGED <<variant, price, weight, purity, minPercent, maxPercent,
                   savedCalculations, loadRequest, now>>
    /\ NotALoad
    /\ AfterHandler("calculate")

\* onClick of a row of the results list: setSelectedResult(r)
SelectResult(k) ==
    /\ pc = "idle"
    /\ k \in 1..Len(results)
    /\ selectedResult' = <<results[k]>>
    /\ UNCHANGED <<variant, price, weight, purity, minPercent, maxPercent, errors, results,
                   savedCalculations, loadRequest, now>>
    /\ NotALoad
    /\ AfterHandler("select")

\* a variant of the profit indicator that compares with the last result
ProfitIndicatorOfLast(show, rs, sel) ==
    IF show /\ Len(rs) > 1 /\ sel # <<>> THEN <<Sub(sel[1].total, rs[Len(rs)].total)>> ELSE <<>>

\* the profit indicator: <<>> when it is not rendered, else <<profit>> with
\* profit = selectedResult.total - results[0].total
ProfitIndicator(show, rs, sel) ==
    IF show /\ Len(rs) > 1 /\ sel # <<>> THEN <<Sub(sel[1].total, rs[1].total)>> ELSE <<>>

\* onClick of the eye button, which is rendered when results.length > 1:
\* setShowProfitMargin(!showProfitMargin)
ToggleProfitMargin ==
    /\ pc = "idle"
    /\ Len(results) > 1
    /\ showProfitMargin' = ~showProfitMargin
    /\ UNCHANGED <<variant, price, weight, purity, minPercent, maxPercent, errors, results,
                   selectedResult, savedCalculations, loadRequest, now>>
    /\ NotALoad
    /\ renderedDeps' = Deps
    /\ pc' = "idle"
    /\ lastOp' = "toggleProfit"
    /\ UNCHANGED <<installVars, workerVars>>

\* a variant of handleSave without the validation gate
SaveAlways(errs) == TRUE

\* whether handleSave goes on to store the quote: if (!validate()) return;
SaveAllowed(errs) == IsValid(errs)

\* handleSave
HandleSave ==
    /\ pc = "idle"
    /\ UNCHANGED <<variant, price, weight, purity, minPercent, maxPercent, results,
                   selectedResult, loadRequest, now>>
    /\ NotALoad
    /\ LET errs == Validate(price, weight, minPercent, maxPercent)
           newSave == NewSave(now, price, weight, purity, minPercent, maxPercent, selectedResult)
       IN  /\ errors' = errs
           /\ IF ~SaveAllowed(errs)
              THEN /\ savedCalculations' = savedCalculations
                   /\ AfterHandler("saveRejected")
              ELSE /\ savedCalculations' = PrependSave(newSave, savedCalculations)
                   /\ AfterHandler(IF Len(savedCalculations) > SliceEnd THEN "saveEvict" ELSE "save")

\* deleteCalculation(id)
DeleteCalculation(id) ==
    /\ pc = "idle"
    /\ savedCalculations' = RemoveId(savedCalculations, id)
    /\ UNCHANGED <<variant, price, weight, purity, minPercent, maxPercent, errors, results,
                   selectedResult, loadRequest, now>>
    /\ NotALoad
    /\ AfterHandler(IF \E k \in 1..Len(savedCalculations) : savedCalculations[k].id = id
                    THEN "delete" ELSE "deleteAbsent")

\* loadCalculation(params), params a row of the saved list
LoadCalculation(k) ==
    /\ pc = "idle"
    /\ k \in 1..Len(savedCalculations)
    /\ LET params == savedCalculations[k]
       IN  /\ price' = params.price
           /\ weight' = params.weight
           /\ purity' = IF variant = "silver999" THEN purity ELSE params.purity
           /\ minPercent' = params.minPercent
           /\ maxPercent' = params.maxPercent
           /\ loadRequest' = <<params>>
           /\ lastLoad' = <<params>>
    /\ loadSweeps' = 0
    /\ UNCHANGED <<variant, errors, results, selectedResult, savedCalculations, now>>
    /\ AfterHandler("load")

\* the purity effect: whether it runs in this pass, and the range it sets
PurityEffectRuns == variant # "silver999" /\ purity # renderedDeps[3]

\* the loadRequest effect: it runs when loadRequest or calculateAndSelect changed, and acts when loadRequest is set
LoadEffectActs == Deps # renderedDeps /\ loadRequest # <<>>

\* what the loadRequest effect leaves in loadRequest: setLoadRequest(null)
ClearedLoadRequest == <<>>

\* a variant in which the effect's calculateAndSelect is the function of the previous render
PreviousRenderInputs ==
    [price |-> renderedDeps[1], weight |-> renderedDeps[2], purity |-> renderedDeps[3],
     minPercent |-> renderedDeps[4], maxPercent |-> renderedDeps[5]]

\* the state the effect's calculateAndSelect closes over: that of the render the effect belongs to
ClosureInputs ==
    [price |-> price, weight |-> weight, purity |-> purity,
     minPercent |-> minPercent, maxPercent |-> maxPercent]

\* React runs the effects of the committed render, then commits their state updates
RunEffects ==
    /\ pc = "effects"
    /\ IF PurityEffectRuns
       THEN /\ minPercent' = DefaultRange(variant, purity).min
            /\ maxPercent' = DefaultRange(variant, purity).max
       ELSE UNCHANGED <<minPercent, maxPercent>>
    /\ IF LoadEffectActs
       THEN LET in  == ClosureInputs
                out == CalculateAndSelect(variant, in.price, in.weight, in.purity, in.minPercent,
                                          in.maxPercent, loadRequest[1].selectedPercent)
            IN  /\ errors' = out.errors
                /\ results' = out.results
                /\ selectedResult' = out.selectedResult
                /\ loadRequest' = ClearedLoadRequest
                /\ loadSweeps' = loadSweeps + 1
       ELSE UNCHANGED <<errors, results, selectedResult, loadRequest, loadSweeps>>
    /\ UNCHANGED <<variant, price, weight, purity, savedCalculations, now, lastOp, lastLoad>>
    /\ UNCHANGED <<showProfitMargin, installVars, workerVars>>
    /\ renderedDeps' = Deps
    /\ pc' = IF Deps' # Deps THEN "effects" ELSE "idle"

\* time passes: Date.now() returns a later value
Tick ==
    /\ pc = "idle"
    /\ now < MaxClock
    /\ now' = now + 1
    /\ UNCHANGED <<variant, price, weight, purity, minPercent, maxPercent, errors, results,
                   selectedResult, savedCalculations, loadRequest>>
    /\ NotALoad
    /\ AfterHandler("tick")

EditPrice == \E t \in SessionPriceTexts : SetPrice(t)

EditWeight == \E t \in SessionWeightTexts : SetWeight(t)

EditMinPercent == \E t \in SessionMinTexts : SetMinPercent(t)

EditMaxPercent == \E t \in SessionMaxTexts : SetMaxPercent(t)

ChoosePurity == \E pur \in {"916", "750", "925", "999"} : SetPurity(pur)

\* the rows of the results list the user clicks: the first and the last
ClickResult == \E k \in {1, Len(results)} : SelectResult(k)

ClickSaved == \E k \in 1..Len(savedCalculations) : LoadCalculation(k)

ClickDelete == \E id \in 0..MaxClock : DeleteCalculation(id)

SaveWhileFew == Len(savedCalculations) < MaxStored /\ HandleSave

Next ==
    \/ EditPrice
    \/ EditWeight
    \/ EditMinPercent
    \/ EditMaxPercent
    \/ ChoosePurity
    \/ HandleCalculate
    \/ ClickResult
    \/ SaveWhileFew
    \/ ClickSaved
    \/ ClickDelete
    \/ RunEffects

Spec == Init /\ [][Next]_vars

(***************************************************************************)
(* SpecInputs: the inputs hold any of the wide texts (the state after the  *)
(* user has typed them), and the user calculates, selects, saves, loads    *)
(* and deletes without editing.                                            *)
(***************************************************************************)
InitInputs ==
    \E v \in Variants :
        /\ showProfitMargin = FALSE
        /\ PwaAtRest
        /\ variant = v
        /\ price \in WidePriceTexts
        /\ weight \in WideWeightTexts
        /\ purity \in Purities(v)
        /\ minPercent \in WidePercentTexts
        /\ maxPercent \in WidePercentTexts
        /\ errors = NoErrors
        /\ results = <<>>
        /\ selectedResult = <<>>
        /\ savedCalculations = <<>>
        /\ loadRequest = <<>>
        /\ now = 0
        /\ pc = "idle"
        /\ renderedDeps = <<price, weight, purity, minPercent, maxPercent, <<>>>>
        /\ lastOp = "edit"
        /\ lastLoad = <<>>
        /\ loadSweeps = 0

NextInputs ==
    \/ HandleCalculate
    \/ ClickResult
    \/ SaveWhileFew
    \/ ClickSaved
    \/ ClickDelete
    \/ RunEffects

SpecInputs == InitInputs /\ [][NextInputs]_vars

(***************************************************************************)
(* SpecStore: the inputs hold one valid set of texts, and the user         *)
(* calculates, selects, saves, loads and deletes while time passes.        *)
(***************************************************************************)
InitStore ==
    \E v \in Variants :
        /\ showProfitMargin = FALSE
        /\ PwaAtRest
        /\ variant = v
        /\ price = StorePrice
        /\ weight = StoreWeight
        /\ purity = InitialPurity(v)
        /\ minPercent = StoreMinPercent
        /\ maxPercent = StoreMaxPercent
        /\ errors = NoErrors
        /\ results = <<>>
        /\ selectedResult = <<>>
        /\ savedCalculations = <<>>
        /\ loadRequest = <<>>
        /\ now = 0
        /\ pc = "idle"
        /\ renderedDeps = <<price, weight, purity, minPercent, maxPercent, <<>>>>
        /\ lastOp = "edit"
        /\ lastLoad = <<>>
        /\ loadSweeps = 0

NextStore ==
    \/ HandleCalculate
    \/ ClickResult
    \/ HandleSave
    \/ ClickSaved
    \/ ClickDelete
    \/ RunEffects
    \/ Tick

SpecStore == InitStore /\ [][NextStore]_vars

(***************************************************************************)
(* SpecFrame: as SpecStore, and the user also clears and retypes the       *)
(* price, and saves only while no result is selected.                      *)
(***************************************************************************)
RetypePrice == \E t \in StorePriceTexts : SetPrice(t)

SaveUnselected == selectedResult = <<>> /\ HandleSave

NextFrame ==
    \/ RetypePrice
    \/ HandleCalculate
    \/ ClickResult
    \/ SaveUnselected
    \/ ClickSaved
    \/ ClickDelete
    \/ RunEffects
    \/ Tick

SpecFrame == InitStore /\ [][NextFrame]_vars

(***************************************************************************)
(* SpecScenario: the inputs hold the texts of the documented scenarios, and *)
(* the user calculates, selects, shows and hides the profit margin, saves,  *)
(* loads and deletes.                                                       *)
(***************************************************************************)
\* gold 916: price 7200, weight 10, range 8 to 14; silver 999: price 85, weight 50, range 8 to 15
ScenarioPrice(v) == IF v = "gold" THEN <<"7", "2", "0", "0">> ELSE <<"8", "5">>

ScenarioWeight(v) == IF v = "gold" THEN <<"1", "0">> ELSE <<"5", "0">>

ScenarioPurity(v) == IF v = "gold" THEN "916" ELSE "999"

ScenarioRange(v) ==
    IF v = "gold" THEN [min |-> <<"8">>, max |-> <<"1", "4">>]
    ELSE [min |-> <<"8">>, max |-> <<"1", "5">>]

InitScenario ==
    \E v \in Variants :
        /\ showProfitMargin = FALSE
        /\ PwaAtRest
        /\ variant = v
        /\ price = ScenarioPrice(v)
        /\ weight = ScenarioWeight(v)
        /\ purity = ScenarioPurity(v)
        /\ minPercent = ScenarioRange(v).min
        /\ maxPercent = ScenarioRange(v).max
        /\ errors = NoErrors
        /\ results = <<>>
        /\ selectedResult = <<>>
        /\ savedCalculations = <<>>
        /\ loadRequest = <<>>
        /\ now = 0
        /\ pc = "idle"
        /\ renderedDeps = <<price, weight, purity, minPercent, maxPercent, <<>>>>
        /\ lastOp = "edit"
        /\ lastLoad = <<>>
        /\ loadSweeps = 0

NextScenario ==
    \/ HandleCalculate
    \/ ClickResult
    \/ ToggleProfitMargin
    \/ SaveWhileFew
    \/ ClickSaved
    \/ ClickDelete
    \/ RunEffects

SpecScenario == InitScenario /\ [][NextScenario]_vars

(***************************************************************************)
(* SpecDoubles: the sweep in IEEE doubles over the inputs of the two        *)
(* scenarios and their neighbours; the user calculates and selects.         *)
(***************************************************************************)
DoublesPriceTexts == {<<"7", "2", "0", "0">>, <<"8", "5">>, <<"6", "5", "4", "0", ".", "5">>}

DoublesWeightTexts == {<<"1", "0">>, <<"5", "0">>, <<"2", ".", "5">>}

InitDoubles ==
    \E v \in Variants :
        /\ showProfitMargin = FALSE
        /\ PwaAtRest
        /\ variant = v
        /\ price \in DoublesPriceTexts
        /\ weight \in DoublesWeightTexts
        /\ purity \in Purities(v)
        /\ minPercent = InitialRange(v).min
        /\ maxPercent = InitialRange(v).max
        /\ errors = NoErrors
        /\ results = <<>>
        /\ selectedResult = <<>>
        /\ savedCalculations = <<>>
        /\ loadRequest = <<>>
        /\ now = 0
        /\ pc = "idle"
        /\ renderedDeps = <<price, weight, purity, minPercent, maxPercent, <<>>>>
        /\ lastOp = "edit"
        /\ lastLoad = <<>>
        /\ loadSweeps = 0

NextDoubles ==
    \/ HandleCalculate64
    \/ ClickResult

SpecDoubles == InitDoubles /\ [][NextDoubles]_vars

(***************************************************************************)
(* SpecInstall: the install banner over the page loads of one browser       *)
(* profile, while the calculator and the service worker are left alone.     *)
(***************************************************************************)
\* a calculator on which nothing is done
CalculatorAtRest ==
    /\ showProfitMargin = FALSE
    /\ variant = "gold"
    /\ price = <<>>
    /\ weight = <<>>
    /\ purity = InitialPurity("gold")
    /\ minPercent = InitialRange("gold").min
    /\ maxPercent = InitialRange("gold").max
    /\ errors = NoErrors
    /\ results = <<>>
    /\ selectedResult = <<>>
    /\ savedCalculations = <<>>
    /\ loadRequest = <<>>
    /\ now = 0
    /\ pc = "idle"
    /\ renderedDeps = <<<<>>, <<>>, InitialPurity("gold"), InitialRange("gold").min,
                        InitialRange("gold").max, <<>>>>
    /\ lastOp = "init"
    /\ lastLoad = <<>>
    /\ loadSweeps = 0

InitInstall ==
    /\ CalculatorAtRest
    /\ InitServiceWorker({})
    /\ \E sa \in BOOLEAN : InitInstallPrompt(sa, <<>>)

NextInstall ==
    \/ HandleBeforeInstallPrompt
    \/ HandleAppInstalled
    \/ HandleInstallClick
    \/ UserChoiceSettles
    \/ HandleDismiss
    \/ Reload

SpecInstall == InitInstall /\ [][NextInstall]_vars

(***************************************************************************)
(* SpecWorker: the life of the service worker, from its install event on,   *)
(* over any cache storage an earlier version of it may have left.           *)
(***************************************************************************)
InitWorker ==
    /\ CalculatorAtRest
    /\ InitInstallPrompt(FALSE, <<>>)
    /\ \E names \in SUBSET CacheNamesBefore : InitServiceWorker(names)

HandleFetch == \E request \in Requests : FetchEvent(request)

Respond == \E networkResponse \in Responses : RespondFromNetwork(networkResponse)

NextWorker ==
    \/ InstallWorker
    \/ ActivateStart
    \/ ActivateDelete
    \/ ActivateDone
    \/ HandleFetch
    \/ RespondFromCache
    \/ Respond
    \/ NetworkFails
    \/ PutDynamic

SpecWorker == InitWorker /\ [][NextWorker]_vars

(***************************************************************************)
(* Properties                                                              *)
(***************************************************************************)
\* the percent calculateTotalFromParams uses for q
ReplayPercent(q) ==
    IF q.selectedPercent # <<>> THEN Int2Num(q.selectedPercent[1]) ELSE ParseInt(q.minPercent)

\* the results calculateAndSelect produces on the inputs restored from q
RestoredSweep(q) ==
    CalculateAndSelect(variant, q.price, q.weight, q.purity, q.minPercent, q.maxPercent,
                       q.selectedPercent).results

PositiveReal(t) == ~ParseFloat(t).nan /\ Greater(ParseFloat(t), Zero)

NonNegativeInteger(t) == ~ParseInt(t).nan /\ LessEq(Zero, ParseInt(t))

\* validate has just run on the inputs the state holds
JustValidated == pc = "idle" /\ lastOp \in {"calculate", "save", "saveEvict", "saveRejected"}

\* C1: for every saved quote, the total calculateTotalFromParams returns equals the total
\* of the result at the replay percent in the sweep of the inputs restored from the quote
C1_ReplayEqualsSweep ==
    \A k \in 1..Len(savedCalculations) :
        LET q  == savedCalculations[k]
            rs == RestoredSweep(q)
        IN  \A j \in 1..Len(rs) :
                Int2Num(rs[j].percent) = ReplayPercent(q)
                    => rs[j].total = CalculateTotalFromParams(variant, q)

\* C2: after a calculate that validate accepted, the results are exactly one per integer
\* percent from the parsed min to the parsed max, ascending: max - min + 1 of them
C2_SweepEnumeratesRange ==
    (pc = "idle" /\ lastOp = "calculate" /\ IsValid(errors)) =>
        LET min == ParseInt(minPercent)
            max == ParseInt(maxPercent)
        IN  /\ ~min.nan
            /\ ~max.nan
            /\ Len(results) = max.n - min.n + 1
            /\ \A k \in 1..Len(results) : results[k].percent = min.n + k - 1

\* C3: the saved-calculation list never holds more than 10 entries
C3_StoreAtMostTen == Len(savedCalculations) <= 10

\* a save has just evicted an entry and the list holds 10
C3_Witness == lastOp = "saveEvict" /\ Len(savedCalculations) = 10

\* C4: a successful save puts the new quote (the inputs, the clock value as id, the selected
\* percent) at index 0 and keeps the stored quotes behind it in their order; it drops the
\* last one exactly when 10 were stored
C4_SavePrependsAndEvictsOldest ==
    [][lastOp' \in {"save", "saveEvict"} =>
          /\ Len(savedCalculations') >= 1
          /\ savedCalculations'[1] =
                [id |-> now, price |-> price, weight |-> weight, purity |-> purity,
                 minPercent |-> minPercent, maxPercent |-> maxPercent,
                 selectedPercent |-> IF selectedResult = <<>> THEN <<>>
                                     ELSE <<selectedResult[1].percent>>]
          /\ Len(savedCalculations) < 10 => Tail(savedCalculations') = savedCalculations
          /\ Len(savedCalculations) = 10 =>
                Tail(savedCalculations') = SubSeq(savedCalculations, 1, 9)
          /\ Len(savedCalculations) <= 10]_vars

\* a save has just evicted the oldest of 10 entries that were not all saved at the same time
C4_Witness ==
    /\ lastOp = "saveEvict"
    /\ Len(savedCalculations) = 10
    /\ savedCalculations[1].id # savedCalculations[10].id
    /\ savedCalculations[1].selectedPercent # savedCalculations[10].selectedPercent

\* C5: once loadCalculation(q) and its effects have finished, the input fields hold q's values
C5_LoadRestoresInputs ==
    (pc = "idle" /\ lastLoad # <<>>) =>
        LET q == lastLoad[1]
        IN  /\ price = q.price
            /\ weight = q.weight
            /\ purity = q.purity
            /\ minPercent = q.minPercent
            /\ maxPercent = q.maxPercent

\* C6: once loadCalculation(q) and its effects have finished, calculateAndSelect has run
\* exactly once for it, the results are the sweep of q's own price, weight, purity and range,
\* the selection is the result at q.selectedPercent, else the first result (none when the
\* sweep is empty), and loadRequest is null
C6_LoadSweepsOnceFromQuote ==
    (pc = "idle" /\ lastLoad # <<>>) =>
        LET q    == lastLoad[1]
            rs   == Sweep(variant, q.price, q.weight, q.purity, q.minPercent, q.maxPercent)
            hits == {k \in 1..Len(rs) :
                        q.selectedPercent # <<>> /\ rs[k].percent = q.selectedPercent[1]}
        IN  /\ loadSweeps = 1
            /\ loadRequest = <<>>
            /\ results = rs
            /\ selectedResult = IF hits # {} THEN <<rs[CHOOSE k \in hits : TRUE]>>
                                ELSE IF rs # <<>> THEN <<rs[1]>> ELSE <<>>

\* a load has finished whose quote has a selected percent and a range that the fields no
\* longer hold, and the saved percent is selected in the sweep of the quote's range
C6_Witness ==
    /\ pc = "idle"
    /\ lastLoad # <<>>
    /\ lastLoad[1].selectedPercent # <<>>
    /\ lastLoad[1].maxPercent # maxPercent
    /\ selectedResult # <<>>
    /\ selectedResult[1].percent = lastLoad[1].selectedPercent[1]
    /\ selectedResult[1].percent # results[1].percent

\* a step in which calculateAndSelect runs: handleCalculate or the loadRequest effect
CalculateStep == lastOp' = "calculate" \/ loadSweeps' = loadSweeps + 1

\* C7: a call of calculateAndSelect on inputs that fail validate empties the results and the
\* selection, and the results only ever change to a non-empty list by a sweep of inputs
\* that pass validate
C7_NoSweepOnInvalidInput ==
    [][/\ (CalculateStep /\ ~IsValid(Validate(price, weight, minPercent, maxPercent)))
            => (results' = <<>> /\ selectedResult' = <<>>)
       /\ (results' # results /\ results' # <<>>)
            => /\ CalculateStep
               /\ IsValid(Validate(price, weight, minPercent, maxPercent))
               /\ results' = Sweep(variant, price, weight, purity, minPercent, maxPercent)]_vars

\* a calculate on invalid inputs has left no results and no selection while a quote is stored
C7_Witness ==
    /\ lastOp = "calculate"
    /\ ~IsValid(errors)
    /\ results = <<>>
    /\ selectedResult = <<>>
    /\ savedCalculations # <<>>

\* C8: validate accepts only when price and weight parse to a real number > 0 and min and
\* max parse to an integer >= 0; a text that does not gets the error of its field
C8_ValidateAcceptsOnlyWellFormed ==
    JustValidated =>
        /\ IsValid(errors) =>
              /\ PositiveReal(price)
              /\ PositiveReal(weight)
              /\ NonNegativeInteger(minPercent)
              /\ NonNegativeInteger(maxPercent)
        /\ ~PositiveReal(price) => ("price" \in DOMAIN errors /\ errors["price"] = "Invalid price")
        /\ ~PositiveReal(weight) => ("weight" \in DOMAIN errors /\ errors["weight"] = "Invalid weight")
        /\ ~NonNegativeInteger(minPercent) =>
              ("minPercent" \in DOMAIN errors /\ errors["minPercent"] = "Invalid %")
        /\ ~NonNegativeInteger(maxPercent) => "maxPercent" \in DOMAIN errors

\* C9: whenever the parsed min is greater than the parsed max, validate puts
\* 'Max must be >= min' on maxPercent and the verdict is invalid
C9_RangeInvertedFlagged ==
    (JustValidated /\ Greater(ParseInt(minPercent), ParseInt(maxPercent))) =>
        /\ "maxPercent" \in DOMAIN errors
        /\ errors["maxPercent"] = "Max must be >= min"
        /\ ~IsValid(errors)

\* validate has run on an inverted range whose max is itself invalid and whose min is valid
C9_Witness ==
    /\ JustValidated
    /\ Greater(ParseInt(minPercent), ParseInt(maxPercent))
    /\ Less(ParseInt(maxPercent), Zero)
    /\ NonNegativeInteger(minPercent)
    /\ errors["maxPercent"] = "Max must be >= min"

\* C10 as stated: every rule that fails leaves its own error in the mapping
C10_EveryFailedRuleKeepsItsError ==
    JustValidated =>
        /\ PriceRuleFails(price) => ("price" \in DOMAIN errors /\ errors["price"] = "Invalid price")
        /\ WeightRuleFails(weight) =>
              ("weight" \in DOMAIN errors /\ errors["weight"] = "Invalid weight")
        /\ MinRuleFails(minPercent) =>
              ("minPercent" \in DOMAIN errors /\ errors["minPercent"] = "Invalid %")
        /\ MaxRuleFails(maxPercent) =>
              ("maxPercent" \in DOMAIN errors /\ errors["maxPercent"] = "Invalid %")
        /\ RangeRuleFails(minPercent, maxPercent) =>
              ("maxPercent" \in DOMAIN errors /\ errors["maxPercent"] = "Max must be >= min")

\* C10 as amended: every rule that fails leaves an error on its field, whatever the other
\* rules do; the error is the rule's own, except that on maxPercent 'Max must be >= min'
\* replaces 'Invalid %' when both rules fail; a field no rule fails for has no error
C10_EveryFailedRuleMarksItsField ==
    JustValidated =>
        /\ PriceRuleFails(price) => ("price" \in DOMAIN errors /\ errors["price"] = "Invalid price")
        /\ WeightRuleFails(weight) =>
              ("weight" \in DOMAIN errors /\ errors["weight"] = "Invalid weight")
        /\ MinRuleFails(minPercent) =>
              ("minPercent" \in DOMAIN errors /\ errors["minPercent"] = "Invalid %")
        /\ (MaxRuleFails(maxPercent) /\ ~RangeRuleFails(minPercent, maxPercent)) =>
              ("maxPercent" \in DOMAIN errors /\ errors["maxPercent"] = "Invalid %")
        /\ RangeRuleFails(minPercent, maxPercent) =>
              ("maxPercent" \in DOMAIN errors /\ errors["maxPercent"] = "Max must be >= min")
        /\ ~PriceRuleFails(price) => "price" \notin DOMAIN errors
        /\ ~WeightRuleFails(weight) => "weight" \notin DOMAIN errors
        /\ ~MinRuleFails(minPercent) => "minPercent" \notin DOMAIN errors
        /\ (~MaxRuleFails(maxPercent) /\ ~RangeRuleFails(minPercent, maxPercent)) =>
              "maxPercent" \notin DOMAIN errors

\* validate has run on inputs for which all five rules fail
C10_Witness ==
    /\ JustValidated
    /\ PriceRuleFails(price)
    /\ WeightRuleFails(weight)
    /\ MinRuleFails(minPercent)
    /\ MaxRuleFails(maxPercent)
    /\ RangeRuleFails(minPercent, maxPercent)
    /\ DOMAIN errors = {"price", "weight", "minPercent", "maxPercent"}

\* the target percent of the call of calculateAndSelect in this step: none for handleCalculate,
\* the saved percent of the pending load request for the loadRequest effect
StepTarget == IF loadSweeps' = loadSweeps + 1 THEN loadRequest[1].selectedPercent ELSE <<>>

\* C11: after every sweep (a call of calculateAndSelect on inputs validate accepts) the
\* selection is the result at the target percent when there is a target and a result has
\* that percent, otherwise the first result, and none when the sweep produced no results
C11_SelectionFollowsTarget ==
    [][(CalculateStep /\ IsValid(Validate(price, weight, minPercent, maxPercent))) =>
          LET rs   == results'
              hits == {k \in 1..Len(rs) : StepTarget # <<>> /\ rs[k].percent = StepTarget[1]}
          IN  /\ rs = Sweep(variant, price, weight, purity, minPercent, maxPercent)
              /\ (rs = <<>>) => selectedResult' = <<>>
              /\ (rs # <<>> /\ hits = {}) => selectedResult' = <<rs[1]>>
              /\ (rs # <<>> /\ hits # {}) =>
                    \E k \in hits : selectedResult' = <<rs[k]>> /\ Cardinality(hits) = 1]_vars

\* a load has swept with a target percent that no result has, and the first result is selected
C11_Witness ==
    /\ pc = "idle"
    /\ lastLoad # <<>>
    /\ loadSweeps = 1
    /\ lastLoad[1].selectedPercent # <<>>
    /\ Len(results) >= 2
    /\ \A k \in 1..Len(results) : results[k].percent # lastLoad[1].selectedPercent[1]
    /\ selectedResult = <<results[1]>>

\* C12: the selectedPercent of every stored quote is an integer within
\* [minPercent, maxPercent] of that quote
C12_SavedPercentWithinRange ==
    \A k \in 1..Len(savedCalculations) :
        LET q == savedCalculations[k]
        IN  q.selectedPercent # <<>> =>
                /\ LessEq(ParseInt(q.minPercent), Int2Num(q.selectedPercent[1]))
                /\ LessEq(Int2Num(q.selectedPercent[1]), ParseInt(q.maxPercent))

\* C13: no two entries of the saved-calculation list have the same id
C13_IdsUnique ==
    \A j, k \in 1..Len(savedCalculations) :
        j # k => savedCalculations[j].id # savedCalculations[k].id

\* C15: for every stored quote saved without a selection, calculateTotalFromParams equals
\* the total of the first result of the sweep of the quote's inputs
C15_ReplayOfUnselectedIsFirstTotal ==
    \A k \in 1..Len(savedCalculations) :
        LET q  == savedCalculations[k]
            rs == Sweep(variant, q.price, q.weight, q.purity, q.minPercent, q.maxPercent)
        IN  (q.selectedPercent = <<>> /\ rs # <<>>) =>
                CalculateTotalFromParams(variant, q) = rs[1].total

\* a step of handleSave
SaveStep == lastOp' \in {"save", "saveEvict", "saveRejected"}

\* C14: handleSave on inputs that fail validate leaves the saved-calculation list as it was
C14_RejectedSaveKeepsList ==
    [][(SaveStep /\ ~IsValid(Validate(price, weight, minPercent, maxPercent)))
          => savedCalculations' = savedCalculations]_vars

\* a save has just been rejected while the list is full
C14_Witness ==
    /\ lastOp = "saveRejected"
    /\ ~IsValid(errors)
    /\ Len(savedCalculations) = 10

\* C16: deleteCalculation(id) with an id that no stored quote has leaves the list as it was
C16_DeleteAbsentKeepsList ==
    [][lastOp' = "deleteAbsent" => savedCalculations' = savedCalculations]_vars

\* a delete of an id that no stored quote has has just run on a list of several quotes
C16_Witness ==
    /\ lastOp = "deleteAbsent"
    /\ Len(savedCalculations) >= 2

\* C17: deleteCalculation(id) with an id in the list removes one entry, the one with that
\* id, and keeps every other entry in its order
C17_DeleteRemovesOnlyThatEntry ==
    [][lastOp' = "delete" =>
          \E k \in 1..Len(savedCalculations) :
              /\ \A j \in 1..Len(savedCalculations') : savedCalculations'[j].id # savedCalculations[k].id
              /\ savedCalculations' = SubSeq(savedCalculations, 1, k - 1)
                                        \o SubSeq(savedCalculations, k + 1, Len(savedCalculations))]_vars

\* C18: no step changes a stored entry; the entries stay in the list, in their order, except
\* that a save on a list of 10 drops the last one and a delete drops the entries with its id
C18_StoredQuotesImmutable ==
    [][\/ savedCalculations' = savedCalculations
       \/ /\ SaveStep
          /\ Len(savedCalculations') >= 1
          /\ Tail(savedCalculations') =
                IF Len(savedCalculations) = 10 THEN SubSeq(savedCalculations, 1, 9)
                ELSE savedCalculations
       \/ /\ lastOp' = "delete"
          /\ \E k \in 1..Len(savedCalculations) :
                savedCalculations' =
                    SelectSeq(savedCalculations, LAMBDA c : c.id # savedCalculations[k].id)]_vars

\* the price was edited while the list holds 10 quotes saved at two times, all as they were saved
C18_Witness ==
    /\ lastOp = "edit"
    /\ price = <<>>
    /\ Len(savedCalculations) = 10
    /\ savedCalculations[1].id # savedCalculations[10].id
    /\ \A k \in 1..10 : savedCalculations[k].price = StorePrice

\* C19: every numeric field of every result of a sweep is a finite number (a non-empty
\* results list comes from inputs that validate accepted)
C19_ResultsFinite ==
    \A k \in 1..Len(results) :
        /\ IsFinite(results[k].purityValue)
        /\ IsFinite(results[k].wastageValue)
        /\ IsFinite(results[k].wastageInGrams)
        /\ IsFinite(results[k].total)

\* C20: every result r of a sweep has purityValue = weight * purityFraction * price,
\* wastageValue = weight * (r.percent / 100) * price and total = purityValue + wastageValue,
\* for the parsed weight and price and the purity fraction of the sweep, without rounding
C20_TotalIsPurityPlusWastage ==
    [][CalculateStep =>
          \A k \in 1..Len(results') :
              LET r  == results'[k]
                  pr == ParseFloat(price)
                  wt == ParseFloat(weight)
                  pf == SweepPurityDecimal(variant, purity)
              IN  /\ r.purityValue = Mul(Mul(wt, pf), pr)
                  /\ r.wastageValue = Mul(Mul(wt, Div(Int2Num(r.percent), Hundred)), pr)
                  /\ r.total = Add(r.purityValue, r.wastageValue)]_vars

\* a calculate has produced several results whose totals are finite and not whole hundredths
C20_Witness ==
    /\ lastOp = "calculate"
    /\ Len(results) >= 2
    /\ \A k \in 1..Len(results) :
          /\ IsFinite(results[k].total)
          /\ results[k].total.x = 0
          /\ Mul(results[k].total, Hundred).d # 1
          /\ Greater(results[k].wastageValue, Zero)

\* C21: within one sweep the purityValue is the same in every result
C21_PurityValueSameInSweep ==
    \A j, k \in 1..Len(results) : results[j].purityValue = results[k].purityValue

\* a calculate has produced several results whose wastage values and totals differ
C21_Witness ==
    /\ lastOp = "calculate"
    /\ Len(results) >= 3
    /\ \A j, k \in 1..Len(results) :
          j < k => /\ Less(results[j].wastageValue, results[k].wastageValue)
                   /\ Less(results[j].total, results[k].total)
                   /\ Less(results[j].wastageInGrams, results[k].wastageInGrams)

\* C22: every result of a sweep has wastageInGrams = wastageValue / (price * purityFraction)
\* when that rate is > 0 and 0 otherwise, and its total is purityValue + wastageValue,
\* without wastageInGrams
C22_WastageInGramsByRate ==
    [][CalculateStep =>
          \A k \in 1..Len(results') :
              LET r    == results'[k]
                  rate == Mul(ParseFloat(price), SweepPurityDecimal(variant, purity))
              IN  /\ Greater(rate, Zero) => r.wastageInGrams = Div(r.wastageValue, rate)
                  /\ ~Greater(rate, Zero) => r.wastageInGrams = Zero
                  /\ r.total = Add(r.purityValue, r.wastageValue)]_vars

\* a calculate has produced results with a purity fraction below 1 whose wastage in grams
\* is finite and greater than 0
C22_Witness ==
    /\ lastOp = "calculate"
    /\ Len(results) >= 2
    /\ variant # "silver999"
    /\ \A k \in 1..Len(results) :
          /\ IsFinite(results[k].wastageInGrams)
          /\ Greater(results[k].wastageInGrams, Zero)
          /\ results[k].total = Add(results[k].purityValue, results[k].wastageValue)

\* C25: when the purity selection has changed, the effects that follow set minPercent and
\* maxPercent to the default range of the new purity (916: 8 and 14, 750: 10 and 18,
\* 925: 12 and 20, 999 of the selectable silver build: 8 and 15) and leave price, weight and
\* purity as they are; the reset leaves results and selection as they are (they change in
\* that pass only when a load request is pending, by the sweep of the load)
C25_PurityChangeResetsRange ==
    [][(pc = "effects" /\ variant # "silver999" /\ purity # renderedDeps[3]) =>
          /\ minPercent' = (CASE purity = "916" -> <<"8">>
                              [] purity = "750" -> <<"1", "0">>
                              [] purity = "925" -> <<"1", "2">>
                              [] purity = "999" -> <<"8">>)
          /\ maxPercent' = (CASE purity = "916" -> <<"1", "4">>
                              [] purity = "750" -> <<"1", "8">>
                              [] purity = "925" -> <<"2", "0">>
                              [] purity = "999" -> <<"1", "5">>)
          /\ price' = price
          /\ weight' = weight
          /\ purity' = purity
          /\ loadRequest = <<>> => (results' = results /\ selectedResult' = selectedResult)]_vars

\* the purity was changed after a calculate: the range is the default of the new purity, and
\* the results of the range of the old purity and the selection among them are still there
C25_Witness ==
    /\ pc = "idle"
    /\ lastOp = "purity"
    /\ purity \in {"750", "999"}
    /\ minPercent = (IF purity = "750" THEN <<"1", "0">> ELSE <<"8">>)
    /\ maxPercent = (IF purity = "750" THEN <<"1", "8">> ELSE <<"1", "5">>)
    /\ price = <<"5">>
    /\ Len(results) >= 2
    /\ results[1].percent = (IF purity = "750" THEN 8 ELSE 12)
    /\ selectedResult = <<results[Len(results)]>>

\* C27: the selection is none or an element of the results list, and it is none exactly
\* when the results list is empty
C27_SelectionInResults ==
    /\ selectedResult # <<>> => \E k \in 1..Len(results) : results[k] = selectedResult[1]
    /\ (selectedResult = <<>>) <=> (results = <<>>)

\* a quote was deleted after the last result was selected and the price field was cleared
C27_Witness ==
    /\ lastOp = "delete"
    /\ price = <<>>
    /\ Len(results) >= 2
    /\ selectedResult = <<results[Len(results)]>>

\* C28: the totals of one sweep strictly increase with percent, so the profit margin
\* selected.total - results[0].total is never negative and is 0 only for the first result
C28_TotalIncreasesWithPercent ==
    /\ \A j, k \in 1..Len(results) : j < k => Less(results[j].total, results[k].total)
    /\ (selectedResult # <<>> /\ results # <<>>) =>
          /\ LessEq(Zero, Sub(selectedResult[1].total, results[1].total))
          /\ Sub(selectedResult[1].total, results[1].total) = Zero
                => selectedResult[1].percent = results[1].percent

\* C23: gold, purity 916 (fraction 0.92), price 7200, weight 10, range 8 to 14: a sweep gives
\* 7 results, and its result at percent 8 has purityValue 66240, wastageValue 5760 and total
\* 72000
C23_GoldScenario ==
    (variant = "gold" /\ price = <<"7", "2", "0", "0">> /\ weight = <<"1", "0">> /\ purity = "916"
        /\ minPercent = <<"8">> /\ maxPercent = <<"1", "4">> /\ results # <<>>) =>
        /\ Len(results) = 7
        /\ results[1].percent = 8
        /\ results[1].purityValue = B64(Int2Num(66240))
        /\ results[1].wastageValue = B64(Int2Num(5760))
        /\ results[1].total = B64(Int2Num(72000))

\* C24: silver, purity fixed at 999 with purity fraction 1.0, price 85, weight 50, range 8 to
\* 15: the result at percent 8 has purityValue 4250, wastageValue 340 and total 4590, and the
\* replay of a quote saved with these inputs at that percent gives 4590 as well
C24_SilverScenario ==
    (variant = "silver999" /\ price = <<"8", "5">> /\ weight = <<"5", "0">>
        /\ minPercent = <<"8">> /\ maxPercent = <<"1", "5">>) =>
        /\ results # <<>> =>
              /\ results[1].percent = 8
              /\ results[1].purityValue = Int2Num(4250)
              /\ results[1].wastageValue = Int2Num(340)
              /\ results[1].total = Int2Num(4590)
        /\ \A k \in 1..Len(savedCalculations) :
              savedCalculations[k].selectedPercent \in {<<>>, <<8>>}
                  => CalculateTotalFromParams(variant, savedCalculations[k]) = Int2Num(4590)

\* C26: whenever the profit indicator is rendered, the last sweep has more than one result,
\* a result is selected, results[0] is the result of the smallest percent, and the profit
\* shown is selectedResult.total - results[0].total
C26_ProfitMarginAgainstMinimum ==
    ProfitIndicator(showProfitMargin, results, selectedResult) # <<>> =>
        /\ Len(results) > 1
        /\ selectedResult # <<>>
        /\ \A k \in 1..Len(results) : results[1].percent <= results[k].percent
        /\ ProfitIndicator(showProfitMargin, results, selectedResult)[1]
              = Sub(selectedResult[1].total, results[1].total)

\* the profit margin is shown while the last result is selected, and it is greater than 0
C26_Witness ==
    /\ showProfitMargin
    /\ Len(results) > 1
    /\ selectedResult = <<results[Len(results)]>>
    /\ ProfitIndicator(showProfitMargin, results, selectedResult) # <<>>
    /\ Greater(ProfitIndicator(showProfitMargin, results, selectedResult)[1], Zero)

\* C29: once 'Later' was clicked the banner is never visible again, in that page load or a
\* later one, and the dismissed flag stays in localStorage; and the banner is visible only
\* while a prompt event is held, the app is not installed and the flag is not set
C29_DismissedBannerStaysHidden ==
    /\ dismissedOnce => (~BannerVisible /\ installPromptDismissed = <<"true">>)
    /\ BannerVisible =>
          /\ deferredPrompt # <<>>
          /\ ~isInstalled
          /\ installPromptDismissed = <<>>

\* 'Later' was clicked in an earlier page load; in this one a new prompt event is held, the
\* app is not installed, and the banner is not visible
C29_Witness ==
    /\ dismissedOnce
    /\ session > 1
    /\ deferredPrompt # <<>>
    /\ ~isInstalled
    /\ ~standalone
    /\ ~BannerVisible

\* the three cache names of this version of the worker
CurrentCaches == {CACHE_NAME, STATIC_CACHE, DYNAMIC_CACHE}

\* C30: when the activate listener has completed, cache storage holds only caches named
\* 'nl-calculator-v2', 'nl-calculator-static-v2' or 'nl-calculator-dynamic-v2', and the
\* listener has deleted none of these; and after the install a response is stored only in the
\* dynamic cache, and only for a GET request whose URL starts with http, that missed every
\* cache, got status 200 and has one of the asset extensions in its URL
C30_ActivateKeepsCurrentCaches ==
    [][/\ swState' = "activated" =>
             /\ DOMAIN caches' \subseteq CurrentCaches
             /\ deletedByActivate' \cap CurrentCaches = {}
             /\ \A n \in CurrentCaches : n \in DOMAIN caches => n \in DOMAIN caches'
       /\ swState # "parsed" =>
             \A n \in DOMAIN caches' :
                 \A url \in caches'[n] :
                     (n \notin DOMAIN caches \/ url \notin caches[n]) =>
                         /\ n = DYNAMIC_CACHE
                         /\ \E p \in pendingPuts :
                               /\ p.request.url = url
                               /\ p.request.method = "GET"
                               /\ StartsWith(url, <<"h", "t", "t", "p">>)
                               /\ p.cachedResponse = <<>>
                               /\ p.responseToCache.status = 200
                               /\ IsAssetUrl(url)]_vars

\* the worker is active over a cache storage that held caches of both versions: the old
\* ones are deleted, the three current ones are there, and a script was stored
C30_Witness ==
    /\ swState = "activated"
    /\ Cardinality(deletedByActivate) >= 2
    /\ DOMAIN caches = CurrentCaches
    /\ ScriptUrl \in caches[DYNAMIC_CACHE]
    /\ fetchOutcome = "stored"

====
